---- MODULE Spec2Model ----
(***************************************************************************)
(* A state-machine model of audirust, a terminal audio player: the effect  *)
(* parameters (audio_player/effects.rs), the playback engine               *)
(* (audio_player/mod.rs, audio_player.rs) and the per-tick update of the   *)
(* application (app.rs, main.rs).                                          *)
(*                                                                         *)
(* The repository holds two App/AudioPlayer pairs:                         *)
(*   "modular"    app.rs + audio_player/mod.rs + effects.rs                *)
(*   "monolithic" main.rs, whose AudioPlayer is repeated in audio_player.rs*)
(* The variable build says which pair a run is an execution of.            *)
(***************************************************************************)
EXTENDS Integers, Sequences, FiniteSets, TLC

VARIABLES
    build,              \* "modular" | "monolithic"
    stream_handle,      \* AudioPlayer.stream_handle: "Some" | "None"
    visual_only_mode,   \* AudioPlayer.visual_only_mode
    active_sinks,       \* AudioPlayer.active_sinks: Seq of [sink, is_looping]
    sink_queue,         \* the sources queued in each live rodio Sink
    messages,           \* AudioPlayer.messages
    last_played,        \* AudioPlayer.last_played: <<>> (None) or <<t>> (Some(t))
    effect_manager,     \* EffectManager (the same fields of AudioPlayer in main.rs)
    now,                \* the clock Instant::now() reads, in seconds
    last_call,          \* history: the latest AudioPlayer / App call and what it returned
    sink_source,        \* history: the path play_sound was given for each live sink
    toggle_streak,      \* history: the toggle_reverb calls in a row, and the flag before them
    vol_inc_streak,     \* history: n when the n calls since new() were all change_volume(true), else -1
    waveform_values,    \* WaveformVisualizer.waveform_values: the first bins, the ones followed
    audio_samples,      \* WaveformVisualizer.audio_samples
    refresh_streak,     \* history: the branch the latest refresh took, how many in a
                        \* row, and the time its sines were given
    mode,               \* App.mode
    show_help,          \* App.show_help
    should_quit,        \* App.should_quit
    current_audio_file, \* App.current_audio_file
    file_manager        \* App.file_manager: [current_dir, entries, selected_index]

vars == <<build, stream_handle, visual_only_mode, active_sinks, sink_queue, messages,
          last_played, effect_manager, now, last_call, sink_source, toggle_streak,
          vol_inc_streak, waveform_values, audio_samples, refresh_streak, mode,
          show_help, should_quit, current_audio_file, file_manager>>

(***************************************************************************)
(* Bounds of the model.                                                    *)
(***************************************************************************)
\* Rodio sinks alive at once.
MaxSinks == 2
\* Seconds the clock advances in the engine and the log specification.
MaxEngineTime == 1
\* Longest run of change_volume(true) calls the history variable counts.
MaxStreak == 14
\* Logged failures in the engine specification.
MaxEngineLog == 1
\* Rodio sinks alive at once in the log specification.
MaxLogSinks == 1
\* Mutator steps the parameters move away from their defaults in SpecMix.
MaxParamSteps == 1
\* Sinks alive at once in SpecMix.
MaxMixSinks == 1
\* Bins of the waveform that SpecVis follows.
NumBins == 1
\* Sinks alive at once in SpecVis.
MaxVisSinks == 1
\* Seconds the clock reaches in SpecVis.
MaxVisTime == 6
\* Fade-out refreshes in a row in SpecVis.
MaxFadeTicks == 2
\* Idle-decay refreshes in a row after which every bin is 0.
DecayTicks == 44
\* Samples in the buffer of SpecSamples: up to this many, or the reverb offset and up to
\* this many more.
MaxRing == 5

\* Sinks in SpecApp.
MaxAppSinks == 1

\* Components of the file manager's current directory in SpecApp.
MaxDepth == 1

\* Components of the file manager's current directory in SpecFiles.
MaxBrowseDepth == 3

None == "None"

(***************************************************************************)
(* f32.  A value v is held as the integer v * 2^28.  0.1f32 is a multiple  *)
(* of 2^-27 and 0.06f32 of 2^-28, sums and differences of multiples of     *)
(* 2^-28 are multiples of it, and rounding to 24 significant bits keeps    *)
(* them so: every value the parameters take is held exactly.               *)
(***************************************************************************)
F32Scale == 2^28
F32Mantissa == 2^24

Abs(n) == IF n < 0 THEN -n ELSE n

\* The spacing of f32 values around magnitude a (in units of 2^-28), at least one unit.
RECURSIVE UlpFrom(_, _)
UlpFrom(a, u) == IF a < F32Mantissa * u THEN u ELSE UlpFrom(a, 2 * u)

\* Round-to-nearest, ties-to-even, of the exact value n.
RoundF32(n) ==
    LET a == Abs(n)
        u == UlpFrom(a, 1)
        q == a \div u
        r == a % u
        m == IF 2 * r < u THEN q
             ELSE IF 2 * r > u THEN q + 1
             ELSE IF q % 2 = 0 THEN q ELSE q + 1
    IN  IF n < 0 THEN -(m * u) ELSE m * u

\* The f32 nearest to the decimal literal num/den (num/den < 8).
F32Lit(num, den) ==
    LET u == CHOOSE p \in {2^k : k \in 0..6} :
                 /\ num * 16 < p * den
                 /\ p = 1 \/ num * 16 >= (p \div 2) * den
        s == F32Scale \div u
        q == (num * s) \div den
        r == (num * s) % den
        m == IF 2 * r < den THEN q
             ELSE IF 2 * r > den THEN q + 1
             ELSE IF q % 2 = 0 THEN q ELSE q + 1
    IN  m * u

\* The literals of effects.rs.
F32_0_0 == F32Lit(0, 1)
F32_0_1 == F32Lit(1, 10)
F32_0_4 == F32Lit(4, 10)
F32_0_06 == F32Lit(6, 100)
F32_1_0 == F32Lit(1, 1)
F32_2_0 == F32Lit(2, 1)
F32_3_0 == F32Lit(3, 1)

F32Add(a, b) == RoundF32(a + b)
F32Sub(a, b) == RoundF32(a - b)
F32Min(a, b) == IF a < b THEN a ELSE b
F32Max(a, b) == IF a > b THEN a ELSE b

(***************************************************************************)
(* f32 with its exponent, for the waveform: products and values below 2^-5 *)
(* need more than the 2^-28 grid above.  A non-negative f32 is <<m, e>>,   *)
(* the value m * 2^e with 2^23 <= m < 2^24, and zero is <<0, 0>>.  An      *)
(* operation computes the exact result in two 24-bit halves and rounds it  *)
(* to nearest, ties to even, as the f32 operation does (no bound on the    *)
(* exponent: nothing here reaches the subnormals or infinity).             *)
(***************************************************************************)
FpZero == <<0, 0>>

\* The number of bits of n (n < 2^30).
BitLen(n) == IF n = 0 THEN 0 ELSE CHOOSE k \in 1..30 : 2^(k - 1) <= n /\ n < 2^k

\* The f32 that is exactly m * 2^e, for m < 2^24.
FpNorm(m, e) ==
    IF m = 0 THEN FpZero
    ELSE <<m * 2^(24 - BitLen(m)), e - (24 - BitLen(m))>>

\* The f32 nearest to (hi * 2^24 + lo) * 2^e, for hi, lo < 2^24.
FpRound(hi, lo, e) ==
    IF hi = 0 THEN FpNorm(lo, e)
    ELSE LET k == BitLen(hi)
             q == hi * 2^(24 - k) + lo \div 2^k
             r == lo % 2^k
             h == 2^(k - 1)
             m == IF r < h THEN q
                  ELSE IF r > h THEN q + 1
                  ELSE IF q % 2 = 0 THEN q ELSE q + 1
         IN  IF m = F32Mantissa THEN <<F32Mantissa \div 2, e + k + 1>> ELSE <<m, e + k>>

\* The f32 nearest to num / den (0 < den < 128, num < 2^23 * den).
FpLit(num, den) ==
    IF num = 0 THEN FpZero
    ELSE LET k == CHOOSE j \in 0..30 :
                      /\ num * 2^j >= den * (F32Mantissa \div 2)
                      /\ num * 2^j < den * F32Mantissa
             q == (num * 2^k) \div den
             r == (num * 2^k) % den
             m == IF 2 * r < den THEN q
                  ELSE IF 2 * r > den THEN q + 1
                  ELSE IF q % 2 = 0 THEN q ELSE q + 1
         IN  IF m = F32Mantissa THEN <<F32Mantissa \div 2, 1 - k>> ELSE <<m, -k>>

\* The f32 held as n units of 2^-28 above (n >= 0).
FpFromF32(n) ==
    IF n < F32Mantissa THEN FpNorm(n, -28)
    ELSE <<n \div 2^(BitLen(n) - 24), BitLen(n) - 24 - 28>>

FpMul(a, b) ==
    IF a[1] = 0 \/ b[1] = 0 THEN FpZero
    ELSE LET ah == a[1] \div 4096
             al == a[1] % 4096
             bh == b[1] \div 4096
             bl == b[1] % 4096
             mid == ah * bl + al * bh
             low == (mid % 4096) * 4096 + al * bl
         IN  FpRound(ah * bh + mid \div 4096 + low \div F32Mantissa,
                     low % F32Mantissa, a[2] + b[2])

FpAdd(a, b) ==
    IF a[1] = 0 THEN b
    ELSE IF b[1] = 0 THEN a
    ELSE LET big == IF a[2] >= b[2] THEN a ELSE b
             small == IF a[2] >= b[2] THEN b ELSE a
             d == big[2] - small[2]
         IN  IF d > 24 THEN big
             ELSE LET low == (big[1] % 2^(24 - d)) * 2^d + small[1]
                  IN  FpRound(big[1] \div 2^(24 - d) + low \div F32Mantissa,
                              low % F32Mantissa, small[2])

FpLess(a, b) ==
    IF b[1] = 0 THEN FALSE
    ELSE IF a[1] = 0 THEN TRUE
    ELSE a[2] < b[2] \/ (a[2] = b[2] /\ a[1] < b[1])

FpMin(a, b) == IF FpLess(b, a) THEN b ELSE a

\* f32 as usize: the integer part.
FpToUsize(a) ==
    IF a[1] = 0 \/ a[2] < -23 THEN 0
    ELSE IF a[2] >= 0 THEN a[1] * 2^a[2]
    ELSE a[1] \div 2^(-a[2])

(***************************************************************************)
(* u32.  A value is held as the integer congruent to it modulo 2^32 in     *)
(* -2^31 .. 2^31-1 (its bits read as i32), so that a wrapped subtraction   *)
(* is the negative number a - b and the order is the unsigned one.         *)
(***************************************************************************)
U32Add(a, b) == a + b
U32Sub(a, b) == a - b
U32Less(a, b) == IF (a < 0) = (b < 0) THEN a < b ELSE b < 0
U32Min(a, b) == IF U32Less(b, a) THEN b ELSE a
U32Max(a, b) == IF U32Less(a, b) THEN b ELSE a

(***************************************************************************)
(* EffectManager (effects.rs); main.rs and audio_player.rs hold the same   *)
(* fields and the same four mutators on AudioPlayer itself.                *)
(***************************************************************************)
EffectManager_new ==
    [ playback_speed |-> F32_1_0,
      volume         |-> F32_1_0,
      lowpass_cutoff |-> 20000,
      reverb_enabled |-> FALSE,
      reverb_delay   |-> F32_0_06 ]

\* change_volume with the ceiling forgotten.
change_volume_no_ceiling(em, increase) ==
    IF increase
    THEN [em EXCEPT !.volume = F32Add(@, F32_0_1)]
    ELSE [em EXCEPT !.volume = F32Max(F32Sub(@, F32_0_1), F32_0_0)]

change_volume(em, increase) ==
    IF increase
    THEN [em EXCEPT !.volume = F32Min(F32Add(@, F32_0_1), F32_2_0)]
    ELSE [em EXCEPT !.volume = F32Max(F32Sub(@, F32_0_1), F32_0_0)]

\* change_pitch with the floor of change_volume (0.0) in place of its own (0.1).
change_pitch_zero_floor(em, increase) ==
    IF increase
    THEN [em EXCEPT !.playback_speed = F32Min(F32Add(@, F32_0_1), F32_3_0)]
    ELSE [em EXCEPT !.playback_speed = F32Max(F32Sub(@, F32_0_1), F32_0_0)]

change_pitch(em, increase) ==
    IF increase
    THEN [em EXCEPT !.playback_speed = F32Min(F32Add(@, F32_0_1), F32_3_0)]
    ELSE [em EXCEPT !.playback_speed = F32Max(F32Sub(@, F32_0_1), F32_0_1)]

\* change_lowpass with the floor applied before the subtraction.
change_lowpass_floor_first(em, increase) ==
    IF increase
    THEN [em EXCEPT !.lowpass_cutoff = U32Min(U32Add(@, 500), 20000)]
    ELSE [em EXCEPT !.lowpass_cutoff = U32Sub(U32Max(@, 500), 500)]

\* change_lowpass that also switches the reverb off.
change_lowpass_drops_reverb(em, increase) ==
    IF increase
    THEN [em EXCEPT !.lowpass_cutoff = U32Min(U32Add(@, 500), 20000),
                    !.reverb_enabled = FALSE]
    ELSE [em EXCEPT !.lowpass_cutoff = U32Max(U32Sub(@, 500), 500),
                    !.reverb_enabled = FALSE]

\* A decrease by two steps.
change_lowpass_coarse_decrease(em, increase) ==
    IF increase
    THEN [em EXCEPT !.lowpass_cutoff = U32Min(U32Add(@, 500), 20000)]
    ELSE [em EXCEPT !.lowpass_cutoff = U32Max(U32Sub(@, 1000), 500)]

change_lowpass(em, increase) ==
    IF increase
    THEN [em EXCEPT !.lowpass_cutoff = U32Min(U32Add(@, 500), 20000)]
    ELSE [em EXCEPT !.lowpass_cutoff = U32Max(U32Sub(@, 500), 500)]

\* toggle_reverb that only ever switches the reverb on.
toggle_reverb_enable_only(em) == [em EXCEPT !.reverb_enabled = TRUE]

toggle_reverb(em) == [em EXCEPT !.reverb_enabled = ~@]

(***************************************************************************)
(* The playback engine: AudioPlayer of audio_player/mod.rs and of          *)
(* audio_player.rs / main.rs.                                              *)
(*                                                                         *)
(* A rodio Sink is an identity (a number, reused once the Sink is dropped) *)
(* with the queue of sources appended to it and not yet played to the end; *)
(* Sink::empty() is "the queue is empty".  What a File::open and a         *)
(* Decoder::new return is an input of the call that makes them.            *)
(***************************************************************************)
Paths == {"example.wav", "song.wav"}

\* The file update_looping_sounds opens (audio_player.rs, main.rs).
LoopSource == "example.wav"

\* File::open then Decoder::new: both succeed, the first fails, the second fails.
FileOutcomes == {"ok", "open_err", "decode_err"}

SinkIds == 1..MaxSinks

\* add_message whose eviction test is off by one: the log is cut at four entries.
add_message_cut_at_four(msgs, message) ==
    LET pushed == Append(msgs, message)
    IN  IF Len(pushed) > 4 THEN Tail(pushed) ELSE pushed

\* add_message that evicts the newest of the old entries instead of the oldest.
add_message_evict_newest(msgs, message) ==
    IF Len(msgs) + 1 > 5
    THEN Append(SubSeq(msgs, 1, Len(msgs) - 1), message)
    ELSE Append(msgs, message)

add_message(msgs, message) ==
    LET pushed == Append(msgs, message)
    IN  IF Len(pushed) > 5 THEN Tail(pushed) ELSE pushed

OpenErrorMessage(file_path) == <<"Error opening file: Make sure ", file_path, " exists!">>
DecodeErrorMessage == <<"Error decoding audio file">>

\* build_mix that filters at every cutoff, 20000 included.
build_mix_always_filters(file_path, em, reverb) ==
    LET main_source == [ src     |-> file_path,
                         speed   |-> em.playback_speed,
                         amplify |-> <<em.volume>>,
                         delay   |-> <<>> ]
        reverb_source == [ src     |-> file_path,
                           speed   |-> em.playback_speed,
                           amplify |-> <<em.volume, F32_0_4>>,
                           delay   |-> <<em.reverb_delay>> ]
    IN  [ mixer    |-> IF em.reverb_enabled /\ reverb = "ok"
                       THEN <<main_source, reverb_source>>
                       ELSE <<main_source>>,
          low_pass |-> <<em.lowpass_cutoff>> ]

\* build_mix that reads the speed and the volume the player was constructed with.
build_mix_initial_parameters(file_path, em, reverb) ==
    LET main_source == [ src     |-> file_path,
                         speed   |-> F32_1_0,
                         amplify |-> <<F32_1_0>>,
                         delay   |-> <<>> ]
        reverb_source == [ src     |-> file_path,
                           speed   |-> F32_1_0,
                           amplify |-> <<F32_1_0, F32_0_4>>,
                           delay   |-> <<em.reverb_delay>> ]
    IN  [ mixer    |-> IF em.reverb_enabled /\ reverb = "ok"
                       THEN <<main_source, reverb_source>>
                       ELSE <<main_source>>,
          low_pass |-> IF U32Less(em.lowpass_cutoff, 20000)
                       THEN <<em.lowpass_cutoff>>
                       ELSE <<>> ]

\* The source play_sound and update_looping_sounds append to a sink: what was added
\* to the mixer, in order, and the low-pass stage put on the mix (none at 20000).
\* amplify lists the factors of the gain, delay the delay when there is one.
build_mix(file_path, em, reverb) ==
    LET main_source == [ src     |-> file_path,
                         speed   |-> em.playback_speed,
                         amplify |-> <<em.volume>>,
                         delay   |-> <<>> ]
        reverb_source == [ src     |-> file_path,
                           speed   |-> em.playback_speed,
                           amplify |-> <<em.volume, F32_0_4>>,
                           delay   |-> <<em.reverb_delay>> ]
    IN  [ mixer    |-> IF em.reverb_enabled /\ reverb = "ok"
                       THEN <<main_source, reverb_source>>
                       ELSE <<main_source>>,
          low_pass |-> IF U32Less(em.lowpass_cutoff, 20000)
                       THEN <<em.lowpass_cutoff>>
                       ELSE <<>> ]

\* The errors a mix-graph construction meets, by the name of the failing step.
mix_errors(prefix, em, primary, reverb) ==
    IF primary # "ok" THEN {<<prefix, primary>>}
    ELSE IF em.reverb_enabled /\ reverb # "ok" THEN {<<prefix, "reverb", reverb>>}
    ELSE {}

SinksOf(sinks) == {sinks[i].sink : i \in DOMAIN sinks}

\* Dropping the last Arc of a Sink drops the Sink and what is queued in it.
DropUnowned(queue, sinks) == [s \in DOMAIN queue \cap SinksOf(sinks) |-> queue[s]]

FreshSink(queue) == CHOOSE s \in SinkIds \ DOMAIN queue : \A t \in SinkIds \ DOMAIN queue : s <= t

\* cleanup_finished that hands the retained sessions back in reverse order.
cleanup_finished_reversed(sinks, queue) ==
    LET kept == SelectSeq(sinks, LAMBDA e : e.is_looping \/ queue[e.sink] # <<>>)
    IN  [i \in 1..Len(kept) |-> kept[Len(kept) + 1 - i]]

\* cleanup_finished that retains every session.
cleanup_finished_keeps_all(sinks, queue) == sinks

\* cleanup_finished that forgets the looping flag.
cleanup_finished_ignores_looping(sinks, queue) ==
    SelectSeq(sinks, LAMBDA e : queue[e.sink] # <<>>)

cleanup_finished(sinks, queue) ==
    SelectSeq(sinks, LAMBDA e : e.is_looping \/ queue[e.sink] # <<>>)

\* is_playing that looks at the sessions only.
is_playing_sessions_only(vom, sinks) == sinks # <<>>

is_playing_visual_only(vom, sinks) == vom

is_playing(vom, sinks) == vom \/ sinks # <<>>

\* The looping sinks update_looping_sounds finds empty.
LoopBoundaries(sinks, queue) ==
    {sinks[i].sink : i \in {j \in DOMAIN sinks : sinks[j].is_looping /\ queue[sinks[j].sink] = <<>>}}

\* audio_player/mod.rs: nothing after the visual-only test.
update_looping_sounds_mod(vom, sinks, queue, em, primary, reverb) == queue

\* update_looping_sounds that, at a loop boundary, appends to every sink.
update_looping_sounds_every_sink(vom, sinks, queue, em, primary, reverb) ==
    IF vom THEN queue
    ELSE [s \in DOMAIN queue |->
             IF LoopBoundaries(sinks, queue) # {} /\ primary = "ok"
             THEN Append(queue[s], build_mix(LoopSource, em, reverb))
             ELSE queue[s]]

\* audio_player.rs, main.rs: every empty looping sink gets "example.wav" again.
update_looping_sounds_mono(vom, sinks, queue, em, primary, reverb) ==
    IF vom THEN queue
    ELSE [s \in DOMAIN queue |->
             IF s \in LoopBoundaries(sinks, queue) /\ primary = "ok"
             THEN Append(queue[s], build_mix(LoopSource, em, reverb))
             ELSE queue[s]]

update_looping_sounds(b, vom, sinks, queue, em, primary, reverb) ==
    IF b = "modular"
    THEN update_looping_sounds_mod(vom, sinks, queue, em, primary, reverb)
    ELSE update_looping_sounds_mono(vom, sinks, queue, em, primary, reverb)

\* The errors update_looping_sounds meets: it opens a file only at a loop boundary.
update_looping_errors(b, vom, sinks, queue, em, primary, reverb) ==
    IF b = "modular" \/ vom \/ LoopBoundaries(sinks, queue) = {} THEN {}
    ELSE mix_errors("loop", em, primary, reverb)

\* play_sound.  p is the AudioPlayer, t the instant Instant::now() returns, sink_ok
\* whether Sink::try_new succeeds, primary and reverb what the first and the second
\* open-and-decode of file_path return.  The result is the AudioPlayer afterwards,
\* with what the call returned, the errors it met and the add_message calls it made.
play_untouched(p) ==
    [ active_sinks |-> p.active_sinks,
      sink_queue   |-> p.sink_queue,
      sink_source  |-> p.sink_source,
      messages     |-> p.messages,
      last_played  |-> p.last_played,
      result       |-> "Ok",
      errors       |-> {},
      logged       |-> 0 ]

\* The else branches: the file did not open, or did not decode.
play_failed(p, file_path, primary, reverb) ==
    [play_untouched(p) EXCEPT
        !.messages = IF primary = "decode_err"
                     THEN add_message(p.messages, DecodeErrorMessage)
                     ELSE add_message(p.messages, OpenErrorMessage(file_path)),
        !.errors = mix_errors("play", p.effect_manager, primary, reverb),
        !.logged = 1]

\* The innermost branch: the mix is appended to the new sink and the sink kept.
play_started(p, file_path, is_looping, t, reverb) ==
    LET sink == FreshSink(p.sink_queue)
    IN  [play_untouched(p) EXCEPT
            !.sink_queue = [s \in DOMAIN p.sink_queue \cup {sink} |->
                               IF s = sink
                               THEN <<build_mix(file_path, p.effect_manager, reverb)>>
                               ELSE p.sink_queue[s]],
            !.sink_source = [s \in DOMAIN p.sink_queue \cup {sink} |->
                               IF s = sink THEN file_path ELSE p.sink_source[s]],
            !.active_sinks = Append(p.active_sinks,
                                    [sink |-> sink, is_looping |-> is_looping]),
            !.last_played = <<t>>,
            !.errors = mix_errors("play", p.effect_manager, "ok", reverb)]

\* play_sound that puts the new session in front of the others.
play_sound_new_session_first(p, file_path, is_looping, t, sink_ok, primary, reverb) ==
    IF p.visual_only_mode THEN [play_untouched(p) EXCEPT !.last_played = <<t>>]
    ELSE IF p.stream_handle # "Some" THEN play_untouched(p)
    ELSE IF ~sink_ok THEN [play_untouched(p) EXCEPT !.errors = {<<"play", "sink">>}]
    ELSE IF primary # "ok" THEN play_failed(p, file_path, primary, reverb)
    ELSE LET started == play_started(p, file_path, is_looping, t, reverb)
         IN  [started EXCEPT !.active_sinks =
                 <<started.active_sinks[Len(started.active_sinks)]>> \o p.active_sinks]

\* play_sound that does nothing at all without a device.
play_sound_idle_without_device(p, file_path, is_looping, t, sink_ok, primary, reverb) ==
    IF p.visual_only_mode THEN play_untouched(p)
    ELSE IF p.stream_handle # "Some" THEN play_untouched(p)
    ELSE IF ~sink_ok THEN [play_untouched(p) EXCEPT !.errors = {<<"play", "sink">>}]
    ELSE IF primary # "ok" THEN play_failed(p, file_path, primary, reverb)
    ELSE play_started(p, file_path, is_looping, t, reverb)

\* play_sound without the visual-only test at its head.
play_sound_no_visual_only_test(p, file_path, is_looping, t, sink_ok, primary, reverb) ==
    IF ~sink_ok THEN [play_untouched(p) EXCEPT !.errors = {<<"play", "sink">>}]
    ELSE IF primary # "ok" THEN play_failed(p, file_path, primary, reverb)
    ELSE play_started(p, file_path, is_looping, t, reverb)

\* play_sound that takes the timestamp as soon as it has a sink.
play_sound_stamps_early(p, file_path, is_looping, t, sink_ok, primary, reverb) ==
    IF p.visual_only_mode THEN [play_untouched(p) EXCEPT !.last_played = <<t>>]
    ELSE IF p.stream_handle # "Some" THEN play_untouched(p)
    ELSE IF ~sink_ok THEN [play_untouched(p) EXCEPT !.errors = {<<"play", "sink">>}]
    ELSE IF primary # "ok"
    THEN [play_failed(p, file_path, primary, reverb) EXCEPT !.last_played = <<t>>]
    ELSE play_started(p, file_path, is_looping, t, reverb)

play_sound(p, file_path, is_looping, t, sink_ok, primary, reverb) ==
    IF p.visual_only_mode THEN [play_untouched(p) EXCEPT !.last_played = <<t>>]
    ELSE IF p.stream_handle # "Some" THEN play_untouched(p)
    ELSE IF ~sink_ok THEN [play_untouched(p) EXCEPT !.errors = {<<"play", "sink">>}]
    ELSE IF primary # "ok" THEN play_failed(p, file_path, primary, reverb)
    ELSE play_started(p, file_path, is_looping, t, reverb)

\* App::update: the AudioPlayer calls it makes, in the order it makes them.
AppUpdateOrder(b) ==
    IF b = "modular"
    THEN <<"cleanup_finished", "update_looping_sounds", "update">>
    ELSE <<"update_looping_sounds", "cleanup_finished", "update_waveform">>

\* One call of App::update on st = [sinks, queue, errors, offered, cleanup_saw].
\* offered: update_looping_sounds has run in this tick; cleanup_saw: the empty
\* looping sinks cleanup_finished met before it had.  The visualizer's refresh
\* (update, update_waveform) writes the waveform only, which the engine never reads.
UpdateStep_restart_unloops(name, st, b, vom, em, primary, reverb) ==
    CASE name = "cleanup_finished" ->
             LET kept == cleanup_finished(st.sinks, st.queue)
             IN  [st EXCEPT !.sinks = kept,
                            !.queue = DropUnowned(st.queue, kept),
                            !.cleanup_saw = IF st.offered THEN @
                                            ELSE @ \cup LoopBoundaries(st.sinks, st.queue)]
      [] name = "update_looping_sounds" ->
             [st EXCEPT !.sinks = [i \in DOMAIN st.sinks |->
                                      IF st.sinks[i].sink \in LoopBoundaries(st.sinks, st.queue)
                                      THEN [st.sinks[i] EXCEPT !.is_looping = FALSE]
                                      ELSE st.sinks[i]],
                        !.queue = update_looping_sounds(b, vom, st.sinks, st.queue,
                                                        em, primary, reverb),
                        !.errors = @ \cup update_looping_errors(b, vom, st.sinks, st.queue,
                                                                em, primary, reverb),
                        !.offered = TRUE]
      [] OTHER -> st

UpdateStep(name, st, b, vom, em, primary, reverb) ==
    CASE name = "cleanup_finished" ->
             LET kept == cleanup_finished(st.sinks, st.queue)
             IN  [st EXCEPT !.sinks = kept,
                            !.queue = DropUnowned(st.queue, kept),
                            !.cleanup_saw = IF st.offered THEN @
                                            ELSE @ \cup LoopBoundaries(st.sinks, st.queue)]
      [] name = "update_looping_sounds" ->
             [st EXCEPT !.queue = update_looping_sounds(b, vom, st.sinks, st.queue,
                                                        em, primary, reverb),
                        !.errors = @ \cup update_looping_errors(b, vom, st.sinks, st.queue,
                                                                em, primary, reverb),
                        !.offered = TRUE]
      [] OTHER -> st

App_update(b, vom, sinks, queue, em, primary, reverb) ==
    LET order == AppUpdateOrder(b)
        st0 == [sinks |-> sinks, queue |-> queue, errors |-> {},
                offered |-> FALSE, cleanup_saw |-> {}]
        run[i \in 0..Len(order)] ==
            IF i = 0 THEN st0
            ELSE UpdateStep(order[i], run[i - 1], b, vom, em, primary, reverb)
    IN  run[Len(order)]

(***************************************************************************)
(* WaveformVisualizer (audio_player/visualization.rs; update_waveform in   *)
(* audio_player.rs and main.rs is the same code on the fields of           *)
(* AudioPlayer).  A bin is rewritten from its own value, its index and the *)
(* player's state only, so following the first bins of the waveform is     *)
(* exact for them.  What the three sines of simulate_waveform give for a   *)
(* bin is an input of the refresh: wave is (base_wave + harmonic).abs() as *)
(* f32 and reverb is reverb_wave.abs() as f32.                             *)
(***************************************************************************)
\* WaveformVisualizer::new(100), AudioPlayer::new.
Points == 100
\* Duration::from_secs(5).
IdleTimeout == 5

Fp_0_01 == FpLit(1, 100)
Fp_0_001 == FpMul(Fp_0_01, FpLit(1, 10))
Fp_0_3 == FpLit(3, 10)
Fp_0_7 == FpLit(7, 10)
Fp_0_9 == FpLit(9, 10)
Fp_0_95 == FpLit(95, 100)
Fp_1_0 == FpLit(1, 1)
Fp_44100 == FpLit(44100, 1)

\* A visualizer that starts with one sample in its buffer.
WaveformVisualizer_new_with_sample(points) ==
    [ waveform_values |-> [i \in 1..points |-> FpZero],
      audio_samples   |-> <<[neg |-> FALSE, mag |-> FpLit(1, 2)]>> ]

WaveformVisualizer_new(points) ==
    [ waveform_values |-> [i \in 1..points |-> FpZero],
      audio_samples   |-> <<>> ]

\* The idle decay with the threshold at 0.001.
IdleDecay_late_snap(val) ==
    LET v == FpMul(val, Fp_0_9)
    IN  IF FpLess(v, Fp_0_001) THEN FpZero ELSE v

\* *val = *val * 0.9; if *val < 0.01 { *val = 0.0 }
IdleDecay(val) ==
    LET v == FpMul(val, Fp_0_9)
    IN  IF FpLess(v, Fp_0_01) THEN FpZero ELSE v

\* The fade-out with the factor of the idle decay.
FadeOut_idle_factor(val) ==
    LET faded == FpMul(val, Fp_0_9)
    IN  IF FpLess(faded, Fp_0_01) THEN FpZero ELSE faded

\* *val = *val * 0.95; if *val < 0.01 { *val = 0.0 }
FadeOut(val) ==
    LET v == FpMul(val, Fp_0_95)
    IN  IF FpLess(v, Fp_0_01) THEN FpZero ELSE v

\* lowpass_cutoff as f32 / 20000.0 below 20000 (the cutoff is a multiple of 500).
FilterFactor(em) ==
    IF U32Less(em.lowpass_cutoff, 20000)
    THEN FpLit(em.lowpass_cutoff \div 500, 20000 \div 500)
    ELSE Fp_1_0

\* (i * samples_len / waveform_len).min(samples_len - 1), for bin i (from 0).
SampleIndex(i, samples_len, waveform_len) ==
    LET at == (i * samples_len) \div waveform_len
    IN  IF at < samples_len - 1 THEN at ELSE samples_len - 1

\* (effect_manager.get_reverb_delay() * 44100.0) as usize
ReverbOffset(em) == FpToUsize(FpMul(FpFromF32(em.reverb_delay), Fp_44100))

\* The reverb index without the remainder.
ReverbIndex_no_wrap(i, samples_len, waveform_len, em) ==
    SampleIndex(i, samples_len, waveform_len) + ReverbOffset(em)

\* (sample_index + ...) % samples_len
ReverbIndex(i, samples_len, waveform_len, em) ==
    (SampleIndex(i, samples_len, waveform_len) + ReverbOffset(em)) % samples_len

\* update_from_samples.  A sample is [neg, mag]: its sign and its magnitude; the
\* VecDeque's index k is the sequence's k + 1.
update_from_samples(values, samples, is_active, em) ==
    LET samples_len == Len(samples)
        sample_index(i) == SampleIndex(i, samples_len, Points)
        reverb_index(i) == ReverbIndex(i, samples_len, Points, em)
        sample(i) == FpMul(samples[sample_index(i) + 1].mag, FpFromF32(em.volume))
        scaled(i) == FpMin(FpMul(sample(i), FilterFactor(em)), Fp_1_0)
        reverb_sample(i) ==
            FpMul(FpMul(samples[reverb_index(i) + 1].mag, Fp_0_3), FpFromF32(em.volume))
    IN  [b \in DOMAIN values |->
            IF is_active
            THEN IF em.reverb_enabled
                 THEN FpMin(FpAdd(scaled(b - 1), reverb_sample(b - 1)), Fp_1_0)
                 ELSE scaled(b - 1)
            ELSE FadeOut(values[b])]

\* One bin of the synthetic waveform, from what the sines gave for it.
SyntheticBin(em, sines) ==
    LET combined == FpMul(sines.wave, FpFromF32(em.volume))
        with_reverb == IF em.reverb_enabled THEN FpAdd(combined, sines.reverb)
                       ELSE combined
    IN  FpMin(FpMul(with_reverb, Fp_0_7), Fp_1_0)

\* simulate_waveform without the final min(1.0).
simulate_waveform_unclamped(values, is_active, vom, em, waves) ==
    [b \in DOMAIN values |->
        IF is_active \/ vom
        THEN FpMul(IF em.reverb_enabled
                   THEN FpAdd(FpMul(waves[b].wave, FpFromF32(em.volume)), waves[b].reverb)
                   ELSE FpMul(waves[b].wave, FpFromF32(em.volume)),
                   Fp_0_7)
        ELSE FadeOut(values[b])]

simulate_waveform(values, is_active, vom, em, waves) ==
    [b \in DOMAIN values |->
        IF is_active \/ vom THEN SyntheticBin(em, waves[b]) ELSE FadeOut(values[b])]

\* The branch WaveformVisualizer::update takes.
RefreshBranch(samples, sinks, lp, t, vom) ==
    IF sinks = <<>> /\ (lp = <<>> \/ t - lp[1] > IdleTimeout) THEN "idle_decay"
    ELSE IF samples # <<>> THEN (IF sinks # <<>> THEN "samples" ELSE "fade")
    ELSE IF sinks # <<>> \/ vom THEN "synthetic"
    ELSE "fade"

\* WaveformVisualizer::update(active_sinks, last_played, visual_only_mode,
\* effect_manager) at time t.
WaveformVisualizer_update(values, samples, sinks, lp, t, vom, em, waves) ==
    IF sinks = <<>> /\ (lp = <<>> \/ t - lp[1] > IdleTimeout)
    THEN [b \in DOMAIN values |-> IdleDecay(values[b])]
    ELSE IF samples # <<>>
    THEN update_from_samples(values, samples, sinks # <<>>, em)
    ELSE simulate_waveform(values, sinks # <<>>, vom, em, waves)

\* What the sines can give for a bin: base_wave is within the volume, harmonic
\* within 0.3 * filter_factor, reverb_wave (read with the reverb on) within
\* 0.3 * volume.
\* The small value is one that the fade-out takes below 0.01.  The sines of a bin
\* depend on its index; the inputs stand for those of any bin, so the bins that are
\* followed stand for any bin of the waveform.
WaveInputs(em) ==
    [ wave   : { FpZero,
                 FpLit(1, 64),
                 FpFromF32(em.volume),
                 FpAdd(FpFromF32(em.volume),
                       IF U32Less(em.lowpass_cutoff, 20000) THEN FpZero ELSE FpLit(1, 4)) },
      reverb : IF em.reverb_enabled
               THEN { FpZero, FpMul(FpFromF32(em.volume), FpLit(1, 4)) }
               ELSE { FpZero } ]

\* The sines are not read.
NoWave == [wave |-> FpZero, reverb |-> FpZero]

NoRefresh == [kind |-> "none", n |-> 0, time |-> 0]

\* Instant::elapsed(): the time from the creation of the instant to the clock read
\* at t.
InstantElapsed(created, t) == t - created

\* let time = Instant::now().elapsed(): the instant is created by the expression
\* that reads it, so both clock reads are the same second.
SimulateTime(t) == InstantElapsed(t, t)

(***************************************************************************)
(* FileManager (file_manager.rs).  A PathBuf is the sequence of its        *)
(* components below the root.  What read_dir returns for the current       *)
(* directory is an input of the calls that list it: a set of names.        *)
(***************************************************************************)
\* The names a directory may hold, in the order of their bytes.
EntryNames == <<"music", "notes.txt", "song.wav">>

\* The names that are directories (Path::is_dir).
DirNames == {"music"}

\* Path::extension of a name, lowercased.
Extension(name) ==
    CASE name = "song.wav" -> <<"wav">>
      [] name = "notes.txt" -> <<"txt">>
      [] OTHER -> <<>>

\* What read_dir may return.
Listings == SUBSET {EntryNames[i] : i \in DOMAIN EntryNames}

\* std::env::current_dir() at startup.
StartDir == <<"work">>

\* Path::file_name
file_name(path) == path[Len(path)]

\* Path::is_dir
is_dir(path) == file_name(path) \in DirNames

\* Path::to_str: the components after "/".
RECURSIVE to_str(_)
to_str(path) ==
    IF path = <<>> THEN ""
    ELSE to_str(SubSeq(path, 1, Len(path) - 1)) \o "/" \o path[Len(path)]

is_audio_file(path) ==
    /\ Extension(file_name(path)) # <<>>
    /\ Extension(file_name(path))[1] \in {"wav", "mp3", "ogg", "flac"}

NameRank(name) == CHOOSE i \in DOMAIN EntryNames : EntryNames[i] = name

\* The comparator of refresh_files: directories first, then by file name.
SortsBefore(a, b) ==
    \/ is_dir(a) /\ ~is_dir(b)
    \/ is_dir(a) = is_dir(b) /\ NameRank(file_name(a)) < NameRank(file_name(b))

SortEntries(paths) ==
    CHOOSE entries \in [1..Cardinality(paths) -> paths] :
        \A i \in 1..Cardinality(paths), j \in 1..Cardinality(paths) :
            i < j => SortsBefore(entries[i], entries[j])

\* A refresh that leaves the selection where it was.
refresh_files_keeps_selection(fm, listing) ==
    LET kept == {Append(fm.current_dir, name) :
                    name \in {n \in listing : is_dir(<<n>>) \/ is_audio_file(<<n>>)}}
    IN  [fm EXCEPT !.entries = SortEntries(kept)]

refresh_files(fm, listing) ==
    LET kept == {Append(fm.current_dir, name) :
                    name \in {n \in listing : is_dir(<<n>>) \/ is_audio_file(<<n>>)}}
        entries == SortEntries(kept)
    IN  [fm EXCEPT !.entries = entries,
                   !.selected_index = IF entries # <<>> /\ @ >= Len(entries) THEN 0 ELSE @]

FileManager_new(listing) ==
    refresh_files([current_dir |-> StartDir, entries |-> <<>>, selected_index |-> 0],
                  listing)

select_next(fm) ==
    IF fm.entries # <<>>
    THEN [fm EXCEPT !.selected_index = (@ + 1) % Len(fm.entries)]
    ELSE fm

select_prev(fm) ==
    IF fm.entries # <<>>
    THEN [fm EXCEPT !.selected_index = IF @ = 0 THEN Len(fm.entries) - 1 ELSE @ - 1]
    ELSE fm

\* Option<PathBuf>; entries[selected_index] is the sequence's element selected_index + 1.
get_selected_file(fm) ==
    IF fm.entries = <<>> THEN <<>> ELSE <<fm.entries[fm.selected_index + 1]>>

change_directory(fm, path, listing) ==
    IF is_dir(path)
    THEN [refresh_files([fm EXCEPT !.current_dir = path], listing)
             EXCEPT !.selected_index = 0]
    ELSE fm

\* Path::parent is None at the root.
go_to_parent_dir(fm, listing) ==
    IF fm.current_dir # <<>>
    THEN [refresh_files([fm EXCEPT !.current_dir = SubSeq(@, 1, Len(@) - 1)], listing)
             EXCEPT !.selected_index = 0]
    ELSE fm

(***************************************************************************)
(* App (app.rs; main.rs has an App with handle_key_events of its own).     *)
(* app is [mode, show_help, should_quit, current_audio_file, file_manager, *)
(* effect_manager, play]; play is the play_sound call the handler makes,   *)
(* <<>> when it makes none.                                                *)
(***************************************************************************)
\* KeyCode: the characters and keys the handlers match, and one they do not ("x").
KeyCodes == {"q", "Esc", " ", "p", "r", "v", "c", "g", "f", "e", "j", "k", "b",
             "h", "l", "Down", "Up", "Left", "Right", "Enter", "x"}

PlayRequest(file_path, is_looping) ==
    <<[file_path |-> file_path, is_looping |-> is_looping]>>

\* file_path.file_name().map(|name| name.to_string_lossy().to_string())
FileNameOf(path) == <<file_name(path)>>

\* 'p' and 'r' of handle_normal_mode.
play_selected_normal(app, is_looping) ==
    LET selected == get_selected_file(app.file_manager)
    IN  IF selected # <<>>
        THEN IF ~is_dir(selected[1]) /\ is_audio_file(selected[1])
             THEN [app EXCEPT !.current_audio_file = FileNameOf(selected[1]),
                              !.play = PlayRequest(to_str(selected[1]), is_looping)]
             ELSE app
        ELSE [app EXCEPT !.play = PlayRequest("example.wav", is_looping)]

\* The mode keys without the test of show_help.
enter_mode_without_help(app, new_mode) ==
    [app EXCEPT !.mode = new_mode, !.show_help = FALSE]

\* 'v', 'c', 'g' and 'f' of handle_normal_mode.
enter_mode(app, new_mode) ==
    IF app.show_help THEN [app EXCEPT !.mode = new_mode, !.show_help = FALSE] ELSE app

handle_normal_mode(app, key_code, listing) ==
    CASE key_code = " " -> [app EXCEPT !.show_help = ~@]
      [] key_code = "p" -> play_selected_normal(app, FALSE)
      [] key_code = "r" -> play_selected_normal(app, TRUE)
      [] key_code = "v" -> enter_mode(app, "Volume")
      [] key_code = "c" -> enter_mode(app, "Pitch")
      [] key_code = "g" -> enter_mode(app, "Filter")
      [] key_code = "f" ->
             IF app.show_help
             THEN [enter_mode(app, "FileBrowser") EXCEPT
                      !.file_manager = refresh_files(@, listing)]
             ELSE app
      [] key_code = "e" -> [app EXCEPT !.effect_manager = toggle_reverb(@)]
      [] OTHER -> app

handle_volume_mode(app, key_code) ==
    CASE key_code \in {"j", "Down"} -> [app EXCEPT !.effect_manager = change_volume(@, FALSE)]
      [] key_code \in {"k", "Up"} -> [app EXCEPT !.effect_manager = change_volume(@, TRUE)]
      [] OTHER -> app

handle_pitch_mode(app, key_code) ==
    CASE key_code \in {"j", "Down"} -> [app EXCEPT !.effect_manager = change_pitch(@, FALSE)]
      [] key_code \in {"k", "Up"} -> [app EXCEPT !.effect_manager = change_pitch(@, TRUE)]
      [] OTHER -> app

\* The filter keys step the volume as well.
handle_filter_mode_steps_volume(app, key_code) ==
    CASE key_code \in {"j", "Down"} ->
             [app EXCEPT !.effect_manager = change_volume(change_lowpass(@, FALSE), FALSE)]
      [] key_code \in {"k", "Up"} ->
             [app EXCEPT !.effect_manager = change_volume(change_lowpass(@, TRUE), TRUE)]
      [] OTHER -> app

handle_filter_mode(app, key_code) ==
    CASE key_code \in {"j", "Down"} -> [app EXCEPT !.effect_manager = change_lowpass(@, FALSE)]
      [] key_code \in {"k", "Up"} -> [app EXCEPT !.effect_manager = change_lowpass(@, TRUE)]
      [] OTHER -> app

\* 'p' and 'r' of handle_file_browser_mode.
play_selected_browser(app, is_looping) ==
    LET selected == get_selected_file(app.file_manager)
    IN  IF selected # <<>> /\ ~is_dir(selected[1]) /\ is_audio_file(selected[1])
        THEN [app EXCEPT !.current_audio_file = FileNameOf(selected[1]),
                         !.play = PlayRequest(to_str(selected[1]), is_looping)]
        ELSE [app EXCEPT !.current_audio_file = <<"example.wav">>,
                         !.play = PlayRequest("example.wav", is_looping)]

handle_file_browser_mode(app, key_code, listing) ==
    CASE key_code \in {"j", "Down"} -> [app EXCEPT !.file_manager = select_next(@)]
      [] key_code \in {"k", "Up"} -> [app EXCEPT !.file_manager = select_prev(@)]
      [] key_code \in {"h", "Left"} ->
             [app EXCEPT !.file_manager = go_to_parent_dir(@, listing)]
      [] key_code \in {"l", "Right", "Enter"} ->
             LET selected == get_selected_file(app.file_manager)
             IN  IF selected = <<>> THEN app
                 ELSE IF is_dir(selected[1])
                 THEN [app EXCEPT !.file_manager = change_directory(@, selected[1], listing)]
                 ELSE IF is_audio_file(selected[1])
                 THEN [app EXCEPT !.current_audio_file = FileNameOf(selected[1]),
                                  !.play = PlayRequest(to_str(selected[1]), FALSE),
                                  !.mode = "Normal"]
                 ELSE app
      [] key_code = "p" -> play_selected_browser(app, FALSE)
      [] key_code = "r" -> play_selected_browser(app, TRUE)
      [] OTHER -> app

\* 'q' quits in every mode.
handle_key_events_q_always_quits(app, key_code, listing) ==
    IF key_code = "q"
    THEN [app EXCEPT !.should_quit = TRUE]
    ELSE IF key_code = "Esc"
    THEN [app EXCEPT !.mode = "Normal", !.show_help = FALSE]
    ELSE CASE app.mode = "Normal" -> handle_normal_mode(app, key_code, listing)
           [] app.mode = "Volume" -> handle_volume_mode(app, key_code)
           [] app.mode = "Pitch" -> handle_pitch_mode(app, key_code)
           [] app.mode = "Filter" -> handle_filter_mode(app, key_code)
           [] app.mode = "FileBrowser" -> handle_file_browser_mode(app, key_code, listing)

\* Esc also puts the selection back on the first entry.
handle_key_events_esc_resets_selection(app, key_code, listing) ==
    IF key_code = "q"
    THEN IF app.mode = "Normal" THEN [app EXCEPT !.should_quit = TRUE]
         ELSE [app EXCEPT !.mode = "Normal"]
    ELSE IF key_code = "Esc"
    THEN [app EXCEPT !.mode = "Normal", !.show_help = FALSE,
                     !.file_manager.selected_index = 0]
    ELSE CASE app.mode = "Normal" -> handle_normal_mode(app, key_code, listing)
           [] app.mode = "Volume" -> handle_volume_mode(app, key_code)
           [] app.mode = "Pitch" -> handle_pitch_mode(app, key_code)
           [] app.mode = "Filter" -> handle_filter_mode(app, key_code)
           [] app.mode = "FileBrowser" -> handle_file_browser_mode(app, key_code, listing)

\* App::handle_key_events of app.rs.
handle_key_events(app, key_code, listing) ==
    IF key_code = "q"
    THEN IF app.mode = "Normal" THEN [app EXCEPT !.should_quit = TRUE]
         ELSE [app EXCEPT !.mode = "Normal"]
    ELSE IF key_code = "Esc"
    THEN [app EXCEPT !.mode = "Normal", !.show_help = FALSE]
    ELSE CASE app.mode = "Normal" -> handle_normal_mode(app, key_code, listing)
           [] app.mode = "Volume" -> handle_volume_mode(app, key_code)
           [] app.mode = "Pitch" -> handle_pitch_mode(app, key_code)
           [] app.mode = "Filter" -> handle_filter_mode(app, key_code)
           [] app.mode = "FileBrowser" -> handle_file_browser_mode(app, key_code, listing)

\* App::handle_key_events of main.rs.
handle_key_events_mono(app, key_code) ==
    CASE key_code = "p" -> [app EXCEPT !.play = PlayRequest("example.wav", FALSE)]
      [] key_code = "r" -> [app EXCEPT !.play = PlayRequest("example.wav", TRUE)]
      [] key_code = "j" -> [app EXCEPT !.effect_manager = change_pitch(@, FALSE)]
      [] key_code = "k" -> [app EXCEPT !.effect_manager = change_pitch(@, TRUE)]
      [] key_code = "v" -> [app EXCEPT !.effect_manager = change_volume(@, FALSE)]
      [] key_code = "b" -> [app EXCEPT !.effect_manager = change_volume(@, TRUE)]
      [] key_code = "f" -> [app EXCEPT !.effect_manager = change_lowpass(@, FALSE)]
      [] key_code = "g" -> [app EXCEPT !.effect_manager = change_lowpass(@, TRUE)]
      [] key_code = "e" -> [app EXCEPT !.effect_manager = toggle_reverb(@)]
      [] key_code = "q" -> [app EXCEPT !.should_quit = TRUE]
      [] OTHER -> app

KeyHandler(b, app, key_code, listing) ==
    IF b = "modular" THEN handle_key_events(app, key_code, listing)
    ELSE handle_key_events_mono(app, key_code)

(***************************************************************************)
(* Construction: App::new / AudioPlayer::new, with or without an output    *)
(* device (OutputStream::try_default in main).                             *)
(***************************************************************************)
Builds == {"modular", "monolithic"}

NoCall == [op |-> "new", result |-> "Self", errors |-> {}, logged |-> 0, log_len |-> 0,
           order |-> <<>>, cleanup_saw |-> {}, removed |-> 0]

\* main.rs logs one line at startup when there is no device.
VisualOnlyMessage == <<"Running in visual-only mode (no audio device)">>

\* The state after construction, following the first bins of the waveform, with
\* the sample buffer one of rings.
\* main.rs has no file manager, modes, help menu or current file: its App keeps
\* the values below for life.
NoFileManager == [current_dir |-> <<>>, entries |-> <<>>, selected_index |-> 0]

\* listings is what read_dir may return for the start directory in FileManager::new.
StartApp(bins, rings, listings) ==
    /\ build \in Builds
    /\ stream_handle \in {"Some", None}
    /\ visual_only_mode = (stream_handle = None)
    /\ active_sinks = <<>>
    /\ sink_queue = [s \in {} |-> <<>>]
    /\ sink_source = [s \in {} |-> LoopSource]
    /\ messages = IF build = "monolithic" /\ stream_handle = None
                  THEN <<VisualOnlyMessage>> ELSE <<>>
    /\ last_played = <<>>
    /\ effect_manager = EffectManager_new
    /\ now = 0
    /\ last_call = NoCall
    /\ toggle_streak = [n |-> 0, before |-> FALSE]
    /\ vol_inc_streak = 0
    /\ waveform_values = WaveformVisualizer_new(bins).waveform_values
    /\ audio_samples \in rings
    /\ refresh_streak = NoRefresh
    /\ mode = "Normal"
    /\ show_help = FALSE
    /\ should_quit = FALSE
    /\ current_audio_file = <<>>
    /\ file_manager \in IF build = "modular"
                        THEN {FileManager_new(listing) : listing \in listings}
                        ELSE {NoFileManager}

\* The program started in an empty directory.
StartWithRing(bins, rings) == StartApp(bins, rings, {{}})

\* The state after construction: the sample buffer is empty.
StartWith(bins) == StartWithRing(bins, {WaveformVisualizer_new(bins).audio_samples})

\* The engine is followed without the waveform, which it never reads.
Init == StartWith(0)

engine_vars == <<build, stream_handle, visual_only_mode, active_sinks, sink_queue,
                 sink_source, messages, last_played, now, last_call, waveform_values,
                 audio_samples, refresh_streak>>

app_vars == <<mode, show_help, should_quit, current_audio_file, file_manager>>

(***************************************************************************)
(* The effect mutators as calls.  The history variables follow them.       *)
(***************************************************************************)
NoToggleStreak == [n |-> 0, before |-> FALSE]

ChangeVolumeCall(increase) ==
    /\ effect_manager' = change_volume(effect_manager, increase)
    /\ vol_inc_streak' = IF increase /\ vol_inc_streak \in 0..(MaxStreak - 1)
                         THEN vol_inc_streak + 1 ELSE -1
    /\ toggle_streak' = NoToggleStreak
    /\ UNCHANGED <<engine_vars, app_vars>>

ChangePitchCall(increase) ==
    /\ effect_manager' = change_pitch(effect_manager, increase)
    /\ vol_inc_streak' = -1
    /\ toggle_streak' = NoToggleStreak
    /\ UNCHANGED <<engine_vars, app_vars>>

ChangeLowpassCall(increase) ==
    /\ effect_manager' = change_lowpass(effect_manager, increase)
    /\ vol_inc_streak' = -1
    /\ toggle_streak' = NoToggleStreak
    /\ UNCHANGED <<engine_vars, app_vars>>

ToggleReverbCall ==
    /\ effect_manager' = toggle_reverb(effect_manager)
    /\ vol_inc_streak' = -1
    /\ toggle_streak' =
           IF toggle_streak.n = 0
           THEN [n |-> 1, before |-> effect_manager.reverb_enabled]
           ELSE IF toggle_streak.n = 1
           THEN [n |-> 2, before |-> toggle_streak.before]
           ELSE [n |-> 1, before |-> effect_manager.reverb_enabled]
    /\ UNCHANGED <<engine_vars, app_vars>>

NextEffects ==
    \/ \E increase \in BOOLEAN : ChangeVolumeCall(increase)
    \/ \E increase \in BOOLEAN : ChangePitchCall(increase)
    \/ \E increase \in BOOLEAN : ChangeLowpassCall(increase)
    \/ ToggleReverbCall

(***************************************************************************)
(* The engine's calls and its environment.                                 *)
(***************************************************************************)
Player == [ visual_only_mode |-> visual_only_mode,
            stream_handle    |-> stream_handle,
            active_sinks     |-> active_sinks,
            sink_queue       |-> sink_queue,
            sink_source      |-> sink_source,
            messages         |-> messages,
            last_played      |-> last_played,
            effect_manager   |-> effect_manager ]

streaks == <<toggle_streak, vol_inc_streak>>

visualizer_vars == <<waveform_values, audio_samples, refresh_streak>>

\* The outcomes of opens a call does not make are not inputs of it (they are "ok"):
\* the file is opened once when the call gets that far, and a second time when
\* that succeeded and the reverb is on.
OpensMade(opens, em, primary, reverb) ==
    /\ ~opens => primary = "ok"
    /\ ~(opens /\ primary = "ok" /\ em.reverb_enabled) => reverb = "ok"

\* AudioPlayer::play_sound(file_path, is_looping).  A play that keeps its sink needs
\* a free sink identity: at most max_sinks sinks are alive at once.
PlaySoundCall(file_path, is_looping, sink_ok, primary, reverb, max_sinks) ==
    /\ (~visual_only_mode /\ sink_ok /\ primary = "ok")
           => Cardinality(DOMAIN sink_queue) < max_sinks
    /\ OpensMade(~visual_only_mode /\ sink_ok, effect_manager, primary, reverb)
    /\ LET after == play_sound(Player, file_path, is_looping, now, sink_ok, primary, reverb)
       IN  /\ active_sinks' = after.active_sinks
           /\ sink_queue' = after.sink_queue
           /\ sink_source' = after.sink_source
           /\ messages' = after.messages
           /\ last_played' = after.last_played
           /\ last_call' = [op |-> "play_sound", result |-> after.result,
                            errors |-> after.errors, logged |-> after.logged,
                            log_len |-> Len(messages), order |-> <<>>,
                            cleanup_saw |-> {}, removed |-> 0]
    /\ UNCHANGED <<build, stream_handle, visual_only_mode, effect_manager, now, streaks,
                   visualizer_vars, app_vars>>

\* The refresh of the waveform at the end of App::update.  main.rs refreshes when
\* more than 50 ms have passed since the last refresh (due), app.rs on every call.
\* waves is what the sines give for each bin; it is read by simulate_waveform only.
RefreshCall(due, waves) ==
    LET branch == RefreshBranch(audio_samples, active_sinks', last_played, now,
                                visual_only_mode)
    IN  /\ build = "modular" => due
        /\ (~due \/ branch # "synthetic") => \A b \in DOMAIN waves : waves[b] = NoWave
        /\ waveform_values' =
               IF due
               THEN WaveformVisualizer_update(waveform_values, audio_samples,
                                              active_sinks', last_played, now,
                                              visual_only_mode, effect_manager, waves)
               ELSE waveform_values
        /\ refresh_streak' =
               IF ~due \/ waveform_values = <<>> THEN refresh_streak
               ELSE IF branch \in {"idle_decay", "fade"} /\ refresh_streak.kind = branch
               THEN [kind |-> branch,
                     n |-> IF refresh_streak.n > DecayTicks THEN refresh_streak.n
                           ELSE refresh_streak.n + 1,
                     time |-> 0]
               ELSE [kind |-> branch, n |-> 1,
                     time |-> IF branch = "synthetic" THEN SimulateTime(now) ELSE 0]

\* App::update(), once per turn of the main loop.  primary and reverb are what the
\* opens of "example.wav" return during this call.
AppUpdateCall(primary, reverb) ==
    /\ OpensMade(build = "monolithic" /\ ~visual_only_mode
                     /\ LoopBoundaries(active_sinks, sink_queue) # {},
                 effect_manager, primary, reverb)
    /\ LET after == App_update(build, visual_only_mode, active_sinks, sink_queue,
                               effect_manager, primary, reverb)
       IN  /\ active_sinks' = after.sinks
           /\ sink_queue' = after.queue
           /\ sink_source' = [s \in DOMAIN after.queue |-> sink_source[s]]
           /\ last_call' = [op |-> "update", result |-> "unit",
                            errors |-> after.errors, logged |-> 0,
                            log_len |-> Len(messages), order |-> AppUpdateOrder(build),
                            cleanup_saw |-> after.cleanup_saw,
                            removed |-> Len(active_sinks) - Len(after.sinks)]
    /\ \E due \in BOOLEAN :
          \E waves \in IF due /\ RefreshBranch(audio_samples, active_sinks', last_played,
                                              now, visual_only_mode) = "synthetic"
                       THEN [DOMAIN waveform_values -> WaveInputs(effect_manager)]
                       ELSE {[b \in DOMAIN waveform_values |-> NoWave]} :
              RefreshCall(due, waves)
    /\ UNCHANGED <<build, stream_handle, visual_only_mode, messages, last_played,
                   effect_manager, now, streaks, audio_samples, app_vars>>

\* The output device plays the source at the head of a sink to its end.
SinkDrain(s) ==
    /\ s \in DOMAIN sink_queue
    /\ sink_queue[s] # <<>>
    /\ sink_queue' = [sink_queue EXCEPT ![s] = Tail(@)]
    /\ UNCHANGED <<build, stream_handle, visual_only_mode, active_sinks, sink_source,
                   messages, last_played, effect_manager, now, last_call, streaks,
                   visualizer_vars, app_vars>>

\* A second passes.
AdvanceClock(limit) ==
    /\ now < limit
    /\ now' = now + 1
    /\ UNCHANGED <<build, stream_handle, visual_only_mode, active_sinks, sink_queue,
                   sink_source, messages, last_played, effect_manager, last_call, streaks,
                   visualizer_vars, app_vars>>

\* Some seconds pass.
AdvanceClockBy(seconds, limit) ==
    /\ now + seconds <= limit
    /\ now' = now + seconds
    /\ UNCHANGED <<build, stream_handle, visual_only_mode, active_sinks, sink_queue,
                   sink_source, messages, last_played, effect_manager, last_call, streaks,
                   visualizer_vars, app_vars>>

\* toggle_reverb while the engine runs; the streak histories are not kept.
EngineToggleReverb ==
    /\ effect_manager' = toggle_reverb(effect_manager)
    /\ vol_inc_streak' = -1
    /\ toggle_streak' = NoToggleStreak
    /\ UNCHANGED <<engine_vars, app_vars>>

(***************************************************************************)
(* Spec: the sessions of the engine.  Two files, MaxSinks sinks, at most   *)
(* MaxEngineLog logged failures, and a clock.                              *)
(***************************************************************************)
NextEngine ==
    \/ \E file_path \in Paths, is_looping \in BOOLEAN, sink_ok \in BOOLEAN,
          primary \in FileOutcomes, reverb \in FileOutcomes :
          /\ (~visual_only_mode /\ sink_ok /\ primary # "ok") => Len(messages) < MaxEngineLog
          /\ PlaySoundCall(file_path, is_looping, sink_ok, primary, reverb, MaxSinks)
    \/ \E primary \in FileOutcomes, reverb \in FileOutcomes : AppUpdateCall(primary, reverb)
    \/ \E s \in SinkIds : SinkDrain(s)
    \/ EngineToggleReverb
    \/ AdvanceClock(MaxEngineTime)

Spec == Init /\ [][NextEngine]_vars

(***************************************************************************)
(* SpecLog: the diagnostic log.  One file, MaxLogSinks sinks, every        *)
(* failure of every call, and a clock.                                     *)
(***************************************************************************)
NextLog ==
    \/ \E is_looping \in BOOLEAN, sink_ok \in BOOLEAN,
          primary \in FileOutcomes, reverb \in FileOutcomes :
          PlaySoundCall(LoopSource, is_looping, sink_ok, primary, reverb, MaxLogSinks)
    \/ \E primary \in FileOutcomes, reverb \in FileOutcomes : AppUpdateCall(primary, reverb)
    \/ \E s \in SinkIds : SinkDrain(s)
    \/ AdvanceClock(MaxEngineTime)
    \/ EngineToggleReverb

SpecLog == Init /\ [][NextLog]_vars

(***************************************************************************)
(* SpecMix: the mix graphs.  One file, MaxMixSinks sinks, and the four     *)
(* mutators while the speed, the volume and the cutoff are within          *)
(* MaxParamSteps steps of their defaults.                                  *)
(***************************************************************************)
ParamWindow(em, steps) ==
    /\ Abs(em.volume - F32_1_0) <= steps * F32_0_1 + F32_0_1 \div 2
    /\ Abs(em.playback_speed - F32_1_0) <= steps * F32_0_1 + F32_0_1 \div 2
    /\ ~U32Less(em.lowpass_cutoff, 20000 - 500 * steps)

NextMix ==
    \/ \E is_looping \in BOOLEAN, reverb \in FileOutcomes :
          PlaySoundCall(LoopSource, is_looping, TRUE, "ok", reverb, MaxMixSinks)
    \/ \E primary \in FileOutcomes, reverb \in FileOutcomes : AppUpdateCall(primary, reverb)
    \/ \E s \in SinkIds : SinkDrain(s)
    \/ \E increase \in BOOLEAN :
          ChangeVolumeCall(increase) /\ ParamWindow(effect_manager', MaxParamSteps)
    \/ \E increase \in BOOLEAN :
          ChangePitchCall(increase) /\ ParamWindow(effect_manager', MaxParamSteps)
    \/ \E increase \in BOOLEAN :
          ChangeLowpassCall(increase) /\ ParamWindow(effect_manager', MaxParamSteps)
    \/ ToggleReverbCall

SpecMix == Init /\ [][NextMix]_vars

(***************************************************************************)
(* SpecVis: the waveform.  NumBins bins, one file, MaxVisSinks sinks, no   *)
(* failing call, a clock that passes the idle timeout, at most             *)
(* MaxFadeTicks fade-out refreshes in a row and idle-decay refreshes until *)
(* the bins have settled.                                                  *)
(* SpecWave: the same with the volume changing within                      *)
(* MaxParamSteps steps of their defaults, and at most MaxFadeTicks         *)
(* idle-decay refreshes in a row.                                          *)
(***************************************************************************)
InitVis == StartWith(NumBins)

VisStep(max_idle) ==
    \/ \E is_looping \in BOOLEAN :
          PlaySoundCall(LoopSource, is_looping, TRUE, "ok", "ok", MaxVisSinks)
    \/ /\ AppUpdateCall("ok", "ok")
       /\ refresh_streak'.kind = "fade" => refresh_streak'.n <= MaxFadeTicks
       /\ refresh_streak'.kind = "idle_decay" => refresh_streak'.n <= max_idle
    \/ \E s \in SinkIds : SinkDrain(s)
    \/ AdvanceClockBy(IdleTimeout \div 2 + 1, MaxVisTime)
    \/ EngineToggleReverb

NextVis == VisStep(DecayTicks + 1)

SpecVis == InitVis /\ [][NextVis]_vars

NextWave ==
    \/ VisStep(MaxFadeTicks)
    \/ \E increase \in BOOLEAN :
          ChangeVolumeCall(increase) /\ ParamWindow(effect_manager', MaxParamSteps)

SpecWave == InitVis /\ [][NextWave]_vars

(***************************************************************************)
(* SpecSamples: update_from_samples on its inputs.  Every bin, a sample    *)
(* buffer that something outside the program has filled (the program has   *)
(* no writer of it) with 1 .. MaxRing samples or with up to MaxRing more   *)
(* than the reverb offset, one file, MaxVisSinks sinks, no failing call,   *)
(* at most MaxFadeTicks decaying refreshes in a row.                       *)
(***************************************************************************)
RingLengths ==
    (1..MaxRing) \cup {ReverbOffset(EffectManager_new) + d : d \in 0..MaxRing}

\* A buffer of n samples of both signs and of magnitudes 1/2 and 1.
Ring(n) ==
    [k \in 1..n |-> [neg |-> k % 2 = 0,
                     mag |-> IF k % 3 = 0 THEN Fp_1_0 ELSE FpLit(1, 2)]]

InitSamples == StartWithRing(Points, {Ring(n) : n \in RingLengths})

NextSamples ==
    \/ \E is_looping \in BOOLEAN :
          PlaySoundCall(LoopSource, is_looping, TRUE, "ok", "ok", MaxVisSinks)
    \/ /\ AppUpdateCall("ok", "ok")
       /\ refresh_streak'.kind \in {"fade", "idle_decay"}
              => refresh_streak'.n <= MaxFadeTicks
    \/ \E s \in SinkIds : SinkDrain(s)
    \/ EngineToggleReverb

SpecSamples == InitSamples /\ [][NextSamples]_vars

(***************************************************************************)
(* SpecApp: the main loop.  A turn handles a key, if one was pressed, and  *)
(* then calls App::update; the program leaves the loop at the end of the   *)
(* turn in which should_quit became true.  Every open succeeds and the     *)
(* sinks are MaxAppSinks.  The directories are at most MaxDepth deep; a    *)
(* directory that is listed again holds what it held, a sub-directory      *)
(* alone, or nothing, and a directory that is entered holds a              *)
(* sub-directory alone or nothing.  One parameter at a time is off its     *)
(* default, by one step downwards, and the reverb is on only while none    *)
(* is.  The clock jumps once, past the idle timeout.                       *)
(***************************************************************************)
AppWindow(em) ==
    /\ ParamWindow(em, 1)
    /\ em.playback_speed <= F32_1_0
    /\ Cardinality({f \in {"volume", "playback_speed", "lowpass_cutoff"} :
                       em[f] # EffectManager_new[f]})
           + (IF em.reverb_enabled THEN 1 ELSE 0) <= 1

AppRecord == [mode |-> mode, show_help |-> show_help, should_quit |-> should_quit,
              current_audio_file |-> current_audio_file, file_manager |-> file_manager,
              effect_manager |-> effect_manager, play |-> <<>>]

\* App::handle_key_events(key_code) with the play_sound call it makes.  listing is
\* what read_dir returns if the handler lists a directory; sink_ok, primary and
\* reverb are what Sink::try_new and the opens return if it plays.
HandleKeyCall(key_code, listing, sink_ok, primary, reverb, max_sinks) ==
    LET handled == KeyHandler(build, AppRecord, key_code, listing)
        plays == handled.play # <<>>
        after == IF plays
                 THEN play_sound(Player, handled.play[1].file_path,
                                 handled.play[1].is_looping, now, sink_ok, primary, reverb)
                 ELSE play_untouched(Player)
    IN  /\ ~should_quit
        /\ handled = KeyHandler(build, AppRecord, key_code, {}) => listing = {}
        /\ ~plays => sink_ok /\ primary = "ok" /\ reverb = "ok"
        /\ (plays /\ ~visual_only_mode /\ sink_ok /\ primary = "ok")
               => Cardinality(DOMAIN sink_queue) < max_sinks
        /\ OpensMade(plays /\ ~visual_only_mode /\ sink_ok, effect_manager, primary, reverb)
        /\ mode' = handled.mode
        /\ show_help' = handled.show_help
        /\ should_quit' = handled.should_quit
        /\ current_audio_file' = handled.current_audio_file
        /\ file_manager' = handled.file_manager
        /\ effect_manager' = handled.effect_manager
        /\ active_sinks' = after.active_sinks
        /\ sink_queue' = after.sink_queue
        /\ sink_source' = after.sink_source
        /\ messages' = after.messages
        /\ last_played' = after.last_played
        /\ last_call' = IF plays
                        THEN [op |-> "play_sound", result |-> after.result,
                              errors |-> after.errors, logged |-> after.logged,
                              log_len |-> Len(messages), order |-> <<>>,
                              cleanup_saw |-> {}, removed |-> 0]
                        ELSE [op |-> "handle_key_events", result |-> "unit",
                              errors |-> {}, logged |-> 0, log_len |-> Len(messages),
                              order |-> <<>>, cleanup_saw |-> {}, removed |-> 0]
        /\ vol_inc_streak' = -1
        /\ toggle_streak' = NoToggleStreak
        /\ UNCHANGED <<build, stream_handle, visual_only_mode, now, visualizer_vars>>

RunListings(fm) ==
    {{}, DirNames, {file_name(fm.entries[i]) : i \in DOMAIN fm.entries}}

InitApp == StartApp(0, {WaveformVisualizer_new(0).audio_samples}, Listings)

\* The loop of main has not been left.
Running == ~should_quit \/ last_call.op # "update"

NextApp ==
    \/ \E key_code \in KeyCodes, listing \in RunListings(file_manager) :
          /\ last_call.op \in {"new", "update"}
          /\ HandleKeyCall(key_code, listing, TRUE, "ok", "ok", MaxAppSinks)
          /\ AppWindow(effect_manager')
          /\ Len(file_manager'.current_dir) <= MaxDepth
          /\ file_manager'.current_dir # file_manager.current_dir
                 => listing \in {{}, DirNames}
    \/ Running /\ AppUpdateCall("ok", "ok")
    \/ \E s \in SinkIds : Running /\ SinkDrain(s)
    \/ Running /\ AdvanceClockBy(IdleTimeout + 1, IdleTimeout + 1)

SpecApp == InitApp /\ [][NextApp]_vars

(***************************************************************************)
(* SpecFiles: the file manager by itself.  Its methods are called in any   *)
(* order, and every read_dir returns any set of names: the directories     *)
(* change between the calls.  The directories are at most MaxBrowseDepth   *)
(* deep.                                                                   *)
(***************************************************************************)
FileCall(op) == [op |-> op, result |-> "unit", errors |-> {}, logged |-> 0,
                 log_len |-> Len(messages), order |-> <<>>, cleanup_saw |-> {},
                 removed |-> 0]

\* A call of a method of file_manager that leaves it as after.
FileManagerCall(op, after) ==
    /\ file_manager' = after
    /\ last_call' = FileCall(op)
    /\ UNCHANGED <<build, stream_handle, visual_only_mode, active_sinks, sink_queue,
                   sink_source, messages, last_played, effect_manager, now, streaks,
                   visualizer_vars, mode, show_help, should_quit, current_audio_file>>

SelectNextCall == FileManagerCall("select_next", select_next(file_manager))

SelectPrevCall == FileManagerCall("select_prev", select_prev(file_manager))

RefreshFilesCall(listing) ==
    FileManagerCall("refresh_files", refresh_files(file_manager, listing))

\* path is an entry of the listing shown, as the file browser passes it.
ChangeDirectoryCall(i, listing) ==
    /\ i \in DOMAIN file_manager.entries
    /\ ~is_dir(file_manager.entries[i]) => listing = {}
    /\ Len(file_manager.entries[i]) <= MaxBrowseDepth
    /\ FileManagerCall("change_directory",
                       change_directory(file_manager, file_manager.entries[i], listing))

GoToParentDirCall(listing) ==
    /\ file_manager.current_dir = <<>> => listing = {}
    /\ FileManagerCall("go_to_parent_dir", go_to_parent_dir(file_manager, listing))

InitFiles ==
    /\ StartApp(0, {WaveformVisualizer_new(0).audio_samples}, Listings)
    /\ build = "modular"
    /\ stream_handle = "Some"

NextFiles ==
    \/ SelectNextCall
    \/ SelectPrevCall
    \/ \E listing \in Listings : RefreshFilesCall(listing)
    \/ \E i \in 1..Len(EntryNames), listing \in Listings : ChangeDirectoryCall(i, listing)
    \/ \E listing \in Listings : GoToParentDirCall(listing)

SpecFiles == InitFiles /\ [][NextFiles]_vars

\* The mutators do not read the engine: one build, with a device, stands for all.
InitEffects == Init /\ build = "modular" /\ stream_handle = "Some"

SpecEffects == InitEffects /\ [][NextEffects]_vars

(***************************************************************************)
(* Effect parameters: C1 - C4.                                             *)
(***************************************************************************)

\* C1: after any sequence of change_volume / change_pitch / change_lowpass calls
\* from the initial parameters, volume is in [0.0, 2.0], speed in [0.1, 3.0] and
\* the cutoff in [500, 20000] (as an unsigned number).
C1_ParametersInRange ==
    /\ F32_0_0 <= effect_manager.volume
    /\ effect_manager.volume <= F32_2_0
    /\ F32_0_1 <= effect_manager.playback_speed
    /\ effect_manager.playback_speed <= F32_3_0
    /\ ~U32Less(effect_manager.lowpass_cutoff, 500)
    /\ ~U32Less(20000, effect_manager.lowpass_cutoff)

\* Every parameter has been driven into a bound: volume to its ceiling, speed and
\* cutoff to their floors.
C1_Witness ==
    /\ effect_manager.volume = F32_2_0
    /\ effect_manager.playback_speed = F32_0_1
    /\ effect_manager.lowpass_cutoff = 500

\* C2: saturation is idempotent.  In every reachable state, an increase of a
\* parameter that is at its upper bound and a decrease of one that is at its lower
\* bound leave it exactly there, and the subtraction of 500 from the unsigned
\* cutoff never wraps.
C2_SaturationIdempotent ==
    /\ effect_manager.volume = F32_2_0
           => change_volume(effect_manager, TRUE).volume = F32_2_0
    /\ effect_manager.volume = F32_0_0
           => change_volume(effect_manager, FALSE).volume = F32_0_0
    /\ effect_manager.playback_speed = F32_3_0
           => change_pitch(effect_manager, TRUE).playback_speed = F32_3_0
    /\ effect_manager.playback_speed = F32_0_1
           => change_pitch(effect_manager, FALSE).playback_speed = F32_0_1
    /\ effect_manager.lowpass_cutoff = 20000
           => change_lowpass(effect_manager, TRUE).lowpass_cutoff = 20000
    /\ effect_manager.lowpass_cutoff = 500
           => change_lowpass(effect_manager, FALSE).lowpass_cutoff = 500
    /\ U32Sub(effect_manager.lowpass_cutoff, 500) >= 0

\* Since new() only change_volume(true) was called, at least once more after the
\* ceiling was reached (ten calls reach it), and the cutoff sits at its ceiling.
C2_Witness ==
    /\ vol_inc_streak >= 11
    /\ effect_manager.volume = F32_2_0
    /\ effect_manager.lowpass_cutoff = 20000

\* The f32 nearest to 1.3, and the next f32 above it.
F32_1_3 == F32Lit(13, 10)
F32_1_3_next == F32_1_3 + UlpFrom(F32_1_3, 1)

\* C3 as stated: from the initial parameters three volume increases give 1.3, and
\* ten further increases give exactly 2.0.
C3_Original ==
    /\ vol_inc_streak = 3 => effect_manager.volume = F32_1_3
    /\ vol_inc_streak = 13 => effect_manager.volume = F32_2_0

\* C3 amended: three volume increases give the f32 one unit in the last place
\* above 1.3 (1.0 + 0.1 + 0.1 + 0.1 rounded after each f32 addition: 1.3000001),
\* and ten further increases give exactly 2.0.
C3_ThreeThenTenIncreases ==
    /\ vol_inc_streak = 3 => effect_manager.volume = F32_1_3_next
    /\ vol_inc_streak = 13 => effect_manager.volume = F32_2_0

\* Thirteen volume increases, and nothing else, have been made since new().
C3_Witness == vol_inc_streak = 13 /\ effect_manager.volume = F32_2_0

\* C4: after two toggle_reverb calls in a row reverb_enabled is what it was before
\* them, whichever value that was.
C4_ToggleTwiceRestores ==
    toggle_streak.n = 2 => effect_manager.reverb_enabled = toggle_streak.before

\* Two toggles in a row that started from reverb on.
C4_Witness ==
    /\ toggle_streak.n = 2
    /\ toggle_streak.before = TRUE
    /\ effect_manager.reverb_enabled = TRUE

(***************************************************************************)
(* The playback engine: C5 - C10.                                          *)
(***************************************************************************)

\* C5: with a device, a play_sound call whose file cannot be opened or cannot be
\* decoded returns Ok, appends exactly one entry to the log (the oldest of five
\* making room) and leaves active_sinks, the sinks, last_played and the effect
\* parameters as they were.
C5_FailedPlayOnlyLogs ==
    [][\A is_looping \in BOOLEAN, primary \in {"open_err", "decode_err"} :
          (/\ ~visual_only_mode
           /\ PlaySoundCall(LoopSource, is_looping, TRUE, primary, "ok", MaxLogSinks))
          => /\ last_call'.result = "Ok"
             /\ messages' = (IF Len(messages) = 5 THEN Tail(messages) ELSE messages)
                                \o <<IF primary = "open_err"
                                     THEN OpenErrorMessage(LoopSource)
                                     ELSE DecodeErrorMessage>>
             /\ UNCHANGED <<active_sinks, sink_queue, last_played, effect_manager>>]_vars

\* A play that failed to decode, made a second after one that started a session.
C5_Witness ==
    /\ ~visual_only_mode
    /\ last_call.op = "play_sound"
    /\ last_call.errors = {<<"play", "decode_err">>}
    /\ Len(active_sinks) = 1
    /\ last_played = <<0>>
    /\ now = 1
    /\ messages = <<DecodeErrorMessage>>

\* C6: the log never holds more than 5 entries, and an append to a log of 5 drops
\* exactly its oldest entry: the other four stay in order, followed by the new one
\* (an append to a shorter log drops nothing).
C6_LogBoundedFifo ==
    /\ [](Len(messages) <= 5)
    /\ [][messages' # messages
            => /\ Len(messages') > 0
               /\ messages' = (IF Len(messages) = 5 THEN Tail(messages) ELSE messages)
                                  \o <<messages'[Len(messages')]>>]_vars

\* The latest call appended to a log of five, and the entry it appended differs from
\* the one before it.
C6_Witness ==
    /\ Len(messages) = 5
    /\ last_call.op = "play_sound"
    /\ last_call.logged = 1
    /\ last_call.log_len = 5
    /\ messages[4] # messages[5]
    /\ messages[1] # messages[2]

\* C7 as stated: every error a play_sound or App::update call meets becomes a log
\* entry of that call, and the call does not return a failure.
C7_Original ==
    last_call.op \in {"play_sound", "update"}
        => /\ last_call.result \in {"Ok", "unit"}
           /\ last_call.errors # {} => last_call.logged >= 1

\* C8: no step removes a looping session from active_sinks.
C8_LoopingNeverRemoved ==
    [][\A i \in DOMAIN active_sinks :
          active_sinks[i].is_looping
              => \E j \in DOMAIN active_sinks' : active_sinks'[j] = active_sinks[i]]_vars

\* App::update has just run over a looping session whose sink was empty, and the
\* session is still in active_sinks, its sink still empty.
C8_Witness ==
    /\ last_call.op = "update"
    /\ \E i \in DOMAIN active_sinks :
          /\ active_sinks[i].is_looping
          /\ sink_queue[active_sinks[i].sink] = <<>>
    /\ Cardinality(DOMAIN sink_queue) = 1

\* The place of a call in App::update (0: not made).
Position(order, name) ==
    IF \E i \in DOMAIN order : order[i] = name
    THEN CHOOSE i \in DOMAIN order : order[i] = name
    ELSE 0

\* C9 as stated: in every tick update_looping_sounds runs before cleanup_finished,
\* so cleanup_finished meets no empty looping sink that was not yet offered a refill.
C9_Original ==
    last_call.op = "update"
        => /\ Position(last_call.order, "update_looping_sounds") > 0
           /\ Position(last_call.order, "update_looping_sounds")
                  < Position(last_call.order, "cleanup_finished")
           /\ last_call.cleanup_saw = {}

\* C10 as stated: with a device, when App::update runs while a looping session's sink
\* is empty and the file decodes, the call appends a new source to that sink: the sink
\* is not empty when the call returns.
C10_Original ==
    [][\A reverb \in FileOutcomes :
          (/\ ~visual_only_mode
           /\ AppUpdateCall("ok", reverb))
          => \A s \in LoopBoundaries(active_sinks, sink_queue) :
                 /\ s \in DOMAIN sink_queue'
                 /\ sink_queue'[s] # <<>>]_vars

\* C11 as stated: every stream in the sink of a looping session is built from the
\* path given to the play_sound call that created the session, the streams
\* update_looping_sounds appended included.
C11_Original ==
    \A i \in DOMAIN active_sinks :
        active_sinks[i].is_looping
            => \A k \in DOMAIN sink_queue[active_sinks[i].sink] :
                   \A m \in DOMAIN sink_queue[active_sinks[i].sink][k].mixer :
                       sink_queue[active_sinks[i].sink][k].mixer[m].src
                           = sink_source[active_sinks[i].sink]

\* C12: with a device, when the only session is a non-looping one whose sink has
\* drained, the next App::update (its cleanup_finished) removes it: active_sinks is
\* empty afterwards and is_playing() is false.
C12_DrainedPlayIsRemoved ==
    [][\A primary \in FileOutcomes, reverb \in FileOutcomes :
          (/\ ~visual_only_mode
           /\ Len(active_sinks) = 1
           /\ ~active_sinks[1].is_looping
           /\ sink_queue[active_sinks[1].sink] = <<>>
           /\ AppUpdateCall(primary, reverb))
          => /\ active_sinks' = <<>>
             /\ ~is_playing(visual_only_mode', active_sinks')]_vars

\* App::update has just removed the one session there was, some time after the
\* play_sound that created it.
C12_Witness ==
    /\ ~visual_only_mode
    /\ last_call.op = "update"
    /\ last_call.removed = 1
    /\ last_played # <<>>
    /\ active_sinks = <<>>
    /\ ~is_playing(visual_only_mode, active_sinks)

\* C13: in visual-only mode every play_sound call, whatever the path and the looping
\* flag, returns Ok, sets last_played to the current time, adds no log entry and
\* creates no session; and is_playing() is true in every state.
C13_VisualOnlyPlay ==
    /\ [](visual_only_mode => is_playing(visual_only_mode, active_sinks))
    /\ [][\A file_path \in Paths, is_looping \in BOOLEAN, sink_ok \in BOOLEAN,
             primary \in FileOutcomes, reverb \in FileOutcomes :
             (/\ visual_only_mode
              /\ PlaySoundCall(file_path, is_looping, sink_ok, primary, reverb, MaxSinks))
             => /\ last_call'.result = "Ok"
                /\ last_played' = <<now>>
                /\ messages' = messages
                /\ active_sinks' = active_sinks]_vars

\* Without a device, a play_sound call made at time 1 has just returned.
C13_Witness ==
    /\ visual_only_mode
    /\ last_call.op = "play_sound"
    /\ last_call.result = "Ok"
    /\ now = 1
    /\ last_played = <<1>>
    /\ active_sinks = <<>>

\* C16: in every state is_playing() is true exactly when visual_only_mode is true or
\* active_sinks is not empty.
C16_IsPlayingExactly ==
    is_playing(visual_only_mode, active_sinks)
        <=> (visual_only_mode \/ Len(active_sinks) > 0)

\* Without a device and without a session, after an App::update: is_playing() is true.
C16_Witness ==
    /\ visual_only_mode
    /\ Len(active_sinks) = 0
    /\ last_call.op = "update"
    /\ is_playing(visual_only_mode, active_sinks)

\* C17: with a device, a play_sound call that gets its sink and decodes its file
\* appends exactly one session, with the looping flag it was given and a sink no
\* other session has, after the sessions there were, which stay as they were and in
\* their order; it sets last_played to the current time and adds no log entry.
C17_SuccessfulPlayAppends ==
    [][\A file_path \in Paths, is_looping \in BOOLEAN, reverb \in FileOutcomes :
          (/\ ~visual_only_mode
           /\ PlaySoundCall(file_path, is_looping, TRUE, "ok", reverb, MaxSinks))
          => /\ Len(active_sinks') = Len(active_sinks) + 1
             /\ SubSeq(active_sinks', 1, Len(active_sinks)) = active_sinks
             /\ active_sinks'[Len(active_sinks')].is_looping = is_looping
             /\ active_sinks'[Len(active_sinks')].sink \notin SinksOf(active_sinks)
             /\ \A s \in DOMAIN sink_queue : sink_queue'[s] = sink_queue[s]
             /\ last_played' = <<now>>
             /\ messages' = messages]_vars

\* A play_sound call at time 1 has just added a non-looping session behind a looping one.
C17_Witness ==
    /\ ~visual_only_mode
    /\ last_call.op = "play_sound"
    /\ last_call.errors = {}
    /\ Len(active_sinks) = 2
    /\ active_sinks[1].is_looping
    /\ ~active_sinks[2].is_looping
    /\ now = 1
    /\ last_played = <<1>>
    /\ messages = <<>>

\* The place of the session with sink s in sinks (0: none).
SessionIndex(sinks, s) ==
    IF \E i \in DOMAIN sinks : sinks[i].sink = s
    THEN CHOOSE i \in DOMAIN sinks : sinks[i].sink = s
    ELSE 0

\* C18: the cleanup_finished of an App::update removes exactly the sessions that do
\* not loop and whose sink is empty; the sessions that loop or whose sink is not empty
\* stay, unchanged and in their relative order.
C18_CleanupRemovesExactlyFinished ==
    [][\A primary \in FileOutcomes, reverb \in FileOutcomes :
          AppUpdateCall(primary, reverb)
          => /\ \A i \in DOMAIN active_sinks :
                    (SessionIndex(active_sinks', active_sinks[i].sink) = 0)
                        <=> (~active_sinks[i].is_looping
                               /\ sink_queue[active_sinks[i].sink] = <<>>)
             /\ \A j \in DOMAIN active_sinks' :
                    /\ SessionIndex(active_sinks, active_sinks'[j].sink) # 0
                    /\ active_sinks[SessionIndex(active_sinks, active_sinks'[j].sink)]
                           = active_sinks'[j]
             /\ \A j \in DOMAIN active_sinks', k \in DOMAIN active_sinks' :
                    j < k => SessionIndex(active_sinks, active_sinks'[j].sink)
                                 < SessionIndex(active_sinks, active_sinks'[k].sink)]_vars

\* App::update has just removed one of two sessions and kept the other, whose sink
\* still plays.
C18_Witness ==
    /\ last_call.op = "update"
    /\ last_call.removed = 1
    /\ Len(active_sinks) = 1
    /\ ~active_sinks[1].is_looping
    /\ sink_queue[active_sinks[1].sink] # <<>>

\* The source a play_sound call has just appended to the sink of its new session.
NewStream == sink_queue'[active_sinks'[Len(active_sinks')].sink][1]

\* The reverb branch of a mix: the second source of the mixer, with the gain
\* volume * 0.4 and the delay reverb_delay.
HasReverbBranch(mix, em) ==
    /\ Len(mix.mixer) = 2
    /\ mix.mixer[2].amplify = <<em.volume, F32_0_4>>
    /\ mix.mixer[2].delay = <<em.reverb_delay>>

BuiltFrom(mix, em) ==
    /\ \A m \in DOMAIN mix.mixer :
          /\ mix.mixer[m].speed = em.playback_speed
          /\ mix.mixer[m].amplify[1] = em.volume
    /\ Len(mix.mixer) = 2 => em.reverb_enabled
    /\ mix.low_pass = IF U32Less(em.lowpass_cutoff, 20000)
                      THEN <<em.lowpass_cutoff>> ELSE <<>>

\* C20: a step that changes a parameter leaves the sessions and every source queued
\* in their sinks as they were; a source that a later play_sound or a later
\* update_looping_sounds appends is built from the parameters of that moment.
C20_MutationsNotRetroactive ==
    [][/\ effect_manager' # effect_manager
          => /\ sink_queue' = sink_queue
             /\ active_sinks' = active_sinks
       /\ \A s \in DOMAIN sink_queue' :
             /\ (s \notin DOMAIN sink_queue /\ sink_queue'[s] # <<>>)
                   => BuiltFrom(sink_queue'[s][Len(sink_queue'[s])], effect_manager)
             /\ (s \in DOMAIN sink_queue /\ Len(sink_queue'[s]) > Len(sink_queue[s]))
                   => BuiltFrom(sink_queue'[s][Len(sink_queue'[s])], effect_manager)]_vars

\* A source was queued at volume 1.0 and speed 1.0; the volume and the speed were
\* changed afterwards and the source in the sink still has the old values.
C20_Witness ==
    /\ Len(active_sinks) = 1
    /\ Len(sink_queue[active_sinks[1].sink]) = 1
    /\ sink_queue[active_sinks[1].sink][1].mixer[1].amplify = <<F32_1_0>>
    /\ sink_queue[active_sinks[1].sink][1].mixer[1].speed = F32_1_0
    /\ effect_manager.volume # F32_1_0
    /\ effect_manager.playback_speed # F32_1_0

(***************************************************************************)
(* The waveform: C14, C15.                                                 *)
(***************************************************************************)

AllBinsZero(values) == \A b \in DOMAIN values : values[b] = FpZero

\* C14: while the refreshes take the idle-decay branch (no session, and last_played
\* unset or more than 5 seconds old), DecayTicks of them in a row leave every bin at
\* exactly 0, whatever the bins were; and an idle-decay refresh of bins that are all
\* 0 leaves them all 0.
C14_IdleDecayConverges ==
    /\ []((refresh_streak.kind = "idle_decay" /\ refresh_streak.n >= DecayTicks)
             => AllBinsZero(waveform_values))
    /\ [][(/\ AppUpdateCall("ok", "ok")
           /\ RefreshBranch(audio_samples, active_sinks', last_played, now,
                            visual_only_mode) = "idle_decay"
           /\ AllBinsZero(waveform_values))
          => AllBinsZero(waveform_values')]_vars

\* The bin was 1.0 when the sound ended; the DecayTicks-th idle-decay refresh in a row
\* has just taken it from a value above 0.01 to 0.
C14_Witness ==
    /\ refresh_streak.kind = "idle_decay"
    /\ refresh_streak.n = DecayTicks
    /\ last_played # <<>>
    /\ active_sinks = <<>>
    /\ AllBinsZero(waveform_values)

\* C15: every bin is at least 0 and at most 1 in every state, whichever branch the
\* refreshes took.
C15_BinsInUnitRange ==
    \A b \in DOMAIN waveform_values :
        /\ waveform_values[b][1] >= 0
        /\ ~FpLess(Fp_1_0, waveform_values[b])

\* A synthetic refresh at a volume above 1.0 has just clamped a bin to 1.0.
C15_Witness ==
    /\ refresh_streak.kind = "synthetic"
    /\ F32_1_0 < effect_manager.volume
    /\ waveform_values[1] = Fp_1_0

(***************************************************************************)
(* Visual-only mode, ownership of the sessions, refreshes: C21 - C30.      *)
(***************************************************************************)

\* C21: in visual-only mode no refresh puts the bins through the idle decay or the
\* fade-out, whatever last_played is: the last refresh of a visual-only player was
\* never one of those two.
C21_Original ==
    visual_only_mode => refresh_streak.kind \notin {"idle_decay", "fade"}

\* C22: after a play_sound call in which Sink::try_new failed the player is in
\* visual-only mode and is_playing() is true.
C22_Original ==
    (last_call.op = "play_sound" /\ <<"play", "sink">> \in last_call.errors)
        => /\ visual_only_mode
           /\ is_playing(visual_only_mode, active_sinks)

\* C24: in every state the sinks of the sessions are pairwise distinct; and an
\* App::update appends at most one source to a sink, and only to the sink of a
\* looping session that was empty when the call began.
C24_SinksNotShared ==
    /\ [](\A i \in DOMAIN active_sinks, j \in DOMAIN active_sinks :
              i # j => active_sinks[i].sink # active_sinks[j].sink)
    /\ [][\A primary \in FileOutcomes, reverb \in FileOutcomes :
             AppUpdateCall(primary, reverb)
             => \A s \in DOMAIN sink_queue' :
                    \/ sink_queue'[s] = sink_queue[s]
                    \/ /\ s \in LoopBoundaries(active_sinks, sink_queue)
                       /\ Len(sink_queue'[s]) = 1]_vars

\* App::update has just restarted the looping first session (its sink was created
\* for "song.wav" and now holds "example.wav") next to a second session whose own
\* sink still holds the one source play_sound gave it.
C24_Witness ==
    /\ last_call.op = "update"
    /\ Len(active_sinks) = 2
    /\ active_sinks[1].sink # active_sinks[2].sink
    /\ active_sinks[1].is_looping
    /\ ~active_sinks[2].is_looping
    /\ sink_source[active_sinks[1].sink] = "song.wav"
    /\ Len(sink_queue[active_sinks[1].sink]) = 1
    /\ sink_queue[active_sinks[1].sink][1].mixer[1].src = LoopSource
    /\ sink_source[active_sinks[2].sink] = "song.wav"
    /\ Len(sink_queue[active_sinks[2].sink]) = 1
    /\ sink_queue[active_sinks[2].sink][1].mixer[1].src = "song.wav"

\* C25: with a device, an App::update that ends without a session either leaves the
\* bins alone (main.rs, refresh not due) or rewrites every bin as its value times
\* 0.95 when last_played is at most 5 seconds old, times 0.9 when it is older or
\* unset, and as 0 when that product is below 0.01; no bin grows.
C25_NoSessionRefreshDecays ==
    [][(/\ AppUpdateCall("ok", "ok")
        /\ ~visual_only_mode
        /\ active_sinks' = <<>>)
       => LET factor == IF last_played = <<>> \/ now - last_played[1] > IdleTimeout
                        THEN Fp_0_9 ELSE Fp_0_95
              decayed(val) == IF FpLess(FpMul(val, factor), Fp_0_01) THEN FpZero
                              ELSE FpMul(val, factor)
          IN  /\ \/ \A b \in DOMAIN waveform_values :
                       waveform_values'[b] = decayed(waveform_values[b])
                 \/ build = "monolithic" /\ waveform_values' = waveform_values
              /\ \A b \in DOMAIN waveform_values :
                     ~FpLess(waveform_values[b], waveform_values'[b])]_vars

\* A first fade-out has just taken a bin from 0.7 / 64 to 0.95 times that, a value
\* that the next fade-out takes below 0.01.
C25_Witness ==
    /\ ~visual_only_mode
    /\ active_sinks = <<>>
    /\ refresh_streak.kind = "fade"
    /\ refresh_streak.n = 1
    /\ last_played # <<>>
    /\ now - last_played[1] <= IdleTimeout
    /\ waveform_values[1] = FpMul(FpMul(FpLit(1, 64), Fp_0_7), Fp_0_95)
    /\ FpLess(FpMul(waveform_values[1], Fp_0_95), Fp_0_01)
    /\ last_call.op = "update"

\* C26: the time given to the sines of a synthetic refresh is the time elapsed since
\* the visualizer was created (at time 0), so it grows with the clock from one refresh
\* to the next.
C26_Original ==
    [][(/\ AppUpdateCall("ok", "ok")
        /\ \E waves \in [DOMAIN waveform_values -> WaveInputs(effect_manager)] :
               RefreshCall(TRUE, waves)
        /\ refresh_streak'.kind = "synthetic")
       => refresh_streak'.time = InstantElapsed(0, now)]_vars

\* C27: whenever the sample buffer is not empty, for every bin index i below the
\* number of bins the sample index and the reverb index that update_from_samples
\* reads are at least 0 and at most the buffer's length minus 1; the reverb offset is
\* 2646 samples.
C27_RingReadsInBounds ==
    audio_samples # <<>> =>
        /\ ReverbOffset(effect_manager) = 2646
        /\ \A i \in 0..(Points - 1) :
               /\ SampleIndex(i, Len(audio_samples), Points)
                      \in 0..(Len(audio_samples) - 1)
               /\ ReverbIndex(i, Len(audio_samples), Points, effect_manager)
                      \in 0..(Len(audio_samples) - 1)

\* A refresh has just read a buffer shorter than the reverb offset, with the reverb
\* on and a session playing: the last bin holds the samples at its two indices.
C27_Witness ==
    /\ refresh_streak.kind = "samples"
    /\ last_call.op = "update"
    /\ active_sinks # <<>>
    /\ effect_manager.reverb_enabled
    /\ Len(audio_samples) = MaxRing
    /\ Len(waveform_values) = Points
    /\ waveform_values[Points] # FpZero

\* What a call that is not a call of the engine leaves alone: the sessions, their
\* sinks, last_played and the log.
EngineUntouched ==
    /\ active_sinks' = active_sinks
    /\ sink_queue' = sink_queue
    /\ last_played' = last_played
    /\ messages' = messages

\* C28: change_volume changes the volume only, change_pitch the speed only,
\* change_lowpass the cutoff only and toggle_reverb the reverb flag only: each leaves
\* the three other parameters, the reverb delay, the sessions, last_played and the log
\* as they were; and the reverb delay is 0.06 in every state.
C28_MutatorsIndependent ==
    /\ [](effect_manager.reverb_delay = F32_0_06)
    /\ [][/\ (\E increase \in BOOLEAN : ChangeVolumeCall(increase))
              => /\ effect_manager' = [effect_manager EXCEPT !.volume = effect_manager'.volume]
                 /\ EngineUntouched
          /\ (\E increase \in BOOLEAN : ChangePitchCall(increase))
              => /\ effect_manager' = [effect_manager EXCEPT
                                          !.playback_speed = effect_manager'.playback_speed]
                 /\ EngineUntouched
          /\ (\E increase \in BOOLEAN : ChangeLowpassCall(increase))
              => /\ effect_manager' = [effect_manager EXCEPT
                                          !.lowpass_cutoff = effect_manager'.lowpass_cutoff]
                 /\ EngineUntouched
          /\ ToggleReverbCall
              => /\ effect_manager' = [effect_manager EXCEPT
                                          !.reverb_enabled = effect_manager'.reverb_enabled]
                 /\ EngineUntouched]_vars

\* toggle_reverb has just switched the reverb on while a session plays and the three
\* other parameters are away from their defaults.
C28_Witness ==
    /\ toggle_streak = [n |-> 1, before |-> FALSE]
    /\ effect_manager.reverb_enabled
    /\ effect_manager.volume # F32_1_0
    /\ effect_manager.playback_speed # F32_1_0
    /\ effect_manager.lowpass_cutoff # 20000
    /\ effect_manager.reverb_delay = F32_0_06
    /\ active_sinks # <<>>
    /\ last_played # <<>>

\* C29: a player constructed without an output device is in visual-only mode in every
\* state, has no session and no sink in any state, and no step changes the mode.
C29_VisualOnlyForLife ==
    /\ [](stream_handle = None
             => /\ visual_only_mode
                /\ active_sinks = <<>>
                /\ DOMAIN sink_queue = {})
    /\ [][visual_only_mode' = visual_only_mode /\ stream_handle' = stream_handle]_vars

\* Without a device, after a play_sound call (which left its timestamp, one second
\* after the start) and then an App::update: still no session.
C29_Witness ==
    /\ stream_handle = None
    /\ visual_only_mode
    /\ last_played = <<1>>
    /\ last_call.op = "update"
    /\ active_sinks = <<>>
    /\ DOMAIN sink_queue = {}

\* after is before with some sessions taken out: the others keep their order,
\* their sinks and their looping flags.
RemovesOnly(before, after) ==
    /\ Len(after) <= Len(before)
    /\ \E at \in [1..Len(after) -> 1..Len(before)] :
          /\ \A i \in 1..Len(after), j \in 1..Len(after) : i < j => at[i] < at[j]
          /\ \A i \in 1..Len(after) : after[i] = before[at[i]]

\* C23: a step that changes active_sinks is a play_sound call that appends one session
\* behind the others, or an App::update that takes out sessions which are not looping
\* and whose sinks are empty, and nothing else: the loop restart, the refresh of
\* the waveform (after the idle timeout too), the mutators and every key that does not
\* play leave the sessions, their order and their looping flags as they are.
C23_SessionsChangeByPlayAndCleanup ==
    [][active_sinks' # active_sinks
          => \/ /\ last_call'.op = "play_sound"
                /\ Len(active_sinks') = Len(active_sinks) + 1
                /\ SubSeq(active_sinks', 1, Len(active_sinks)) = active_sinks
             \/ /\ last_call'.op = "update"
                /\ RemovesOnly(active_sinks, active_sinks')
                /\ \A i \in DOMAIN active_sinks :
                      (\A j \in DOMAIN active_sinks' : active_sinks'[j] # active_sinks[i])
                          => /\ ~active_sinks[i].is_looping
                             /\ sink_queue[active_sinks[i].sink] = <<>>]_vars

\* A looping session played from the file browser is alive after an App::update that
\* ran past the idle timeout, over its empty sink, with a parameter changed since and
\* the browser open again.
C23_Witness ==
    /\ last_call.op = "update"
    /\ Len(active_sinks) = 1
    /\ active_sinks[1].is_looping
    /\ now - last_played[1] > IdleTimeout
    /\ current_audio_file = <<"song.wav">>
    /\ mode = "FileBrowser"
    /\ effect_manager.volume # F32_1_0

\* C30: once a looping session is in active_sinks of a player with a device, every step
\* (a key, an App::update, a drained sink, time passing) leaves a looping session
\* there, and is_playing() is true before and after it.
C30_LoopingPlaysOn ==
    [][(~visual_only_mode /\ \E i \in DOMAIN active_sinks : active_sinks[i].is_looping)
          => /\ \E i \in DOMAIN active_sinks' : active_sinks'[i].is_looping
             /\ is_playing(visual_only_mode, active_sinks)
             /\ is_playing(visual_only_mode', active_sinks')]_vars

\* 'r' has played the selected file looping on a device; its sink has drained, an
\* App::update has run, 'q' has been pressed in Normal mode, and the session is there.
C30_Witness ==
    /\ ~visual_only_mode
    /\ should_quit
    /\ last_call.op = "handle_key_events"
    /\ Len(active_sinks) = 1
    /\ active_sinks[1].is_looping
    /\ sink_source[active_sinks[1].sink] = "/work/song.wav"
    /\ sink_queue[active_sinks[1].sink] = <<>>
    /\ now - last_played[1] > IdleTimeout

(***************************************************************************)
(* The sample buffer, the cutoff steps, the key handlers and the file      *)
(* manager: C31 - C38.                                                     *)
(***************************************************************************)
\* C31: audio_samples is empty in every state, and no refresh of the waveform takes
\* the branch that reads it (update_from_samples): every refresh is the idle decay
\* or simulate_waveform (its sines, or its fade-out when no session is alive).
C31_SampleRingNeverWritten ==
    /\ audio_samples = <<>>
    /\ refresh_streak.kind \in {"none", "idle_decay", "synthetic", "fade"}
    /\ RefreshBranch(audio_samples, active_sinks, last_played, now, visual_only_mode)
           # "samples"

\* Sounds have been played and a session is alive: the refresh after an App::update
\* took the sines of simulate_waveform, and the buffer is still empty.
C31_Witness ==
    /\ last_call.op = "update"
    /\ active_sinks # <<>>
    /\ last_played # <<>>
    /\ refresh_streak.kind = "synthetic"
    /\ audio_samples = <<>>
    /\ now > 0

\* C32: in every reachable state the cutoff is a multiple of 500; if it is below 20000
\* an increase followed by a decrease gives it back, and if it is above 500 a
\* decrease followed by an increase gives it back.
C32_CutoffStepsInverse ==
    /\ effect_manager.lowpass_cutoff % 500 = 0
    /\ U32Less(effect_manager.lowpass_cutoff, 20000)
           => change_lowpass(change_lowpass(effect_manager, TRUE), FALSE).lowpass_cutoff
                  = effect_manager.lowpass_cutoff
    /\ U32Less(500, effect_manager.lowpass_cutoff)
           => change_lowpass(change_lowpass(effect_manager, FALSE), TRUE).lowpass_cutoff
                  = effect_manager.lowpass_cutoff

\* The cutoff has been stepped down to one step above its floor, where both round
\* trips apply and the decrease lands on the floor; the other parameters have moved.
C32_Witness ==
    /\ effect_manager.lowpass_cutoff = 1000
    /\ effect_manager.volume # F32_1_0
    /\ effect_manager.reverb_enabled
    /\ vol_inc_streak = -1

\* The keys that enter a mode, with the mode each enters.
ModeKeys == {<<"v", "Volume">>, <<"c", "Pitch">>, <<"g", "Filter">>, <<"f", "FileBrowser">>}

\* C33: in every state show_help implies Normal mode.  A key takes the program into
\* Volume, Pitch, Filter or FileBrowser mode only from Normal mode with the help menu
\* shown, and only as v, c, g or f into its own mode, hiding the menu; with the menu
\* hidden these four keys change nothing.  No step other than a key changes the
\* mode or the menu.
C33_HelpOnlyInNormal ==
    /\ [](/\ show_help => mode = "Normal"
          /\ \A key_code \in KeyCodes, listing \in RunListings(file_manager) :
                LET handled == KeyHandler(build, AppRecord, key_code, listing)
                IN  /\ handled.mode \notin {mode, "Normal"}
                           => /\ mode = "Normal"
                              /\ show_help
                              /\ ~handled.show_help
                              /\ <<key_code, handled.mode>> \in ModeKeys
                    /\ (build = "modular" /\ mode = "Normal" /\ ~show_help
                            /\ key_code \in {"v", "c", "g", "f"})
                           => handled = AppRecord)
    /\ [][/\ mode' \notin {mode, "Normal"}
                 => mode = "Normal" /\ show_help /\ ~show_help'
          /\ (mode' # mode \/ show_help' # show_help)
                 => last_call'.op \in {"handle_key_events", "play_sound"}]_vars

\* The help menu was opened and 'g' pressed: Filter mode, the menu hidden, and the
\* cutoff stepped there; a file had been played from the browser before.
C33_Witness ==
    /\ mode = "Filter"
    /\ ~show_help
    /\ effect_manager.lowpass_cutoff # 20000
    /\ current_audio_file = <<"song.wav">>
    /\ last_call.op = "handle_key_events"

\* C34: should_quit becomes true only by 'q' handled in Normal mode; 'q' in another
\* mode leaves should_quit false and sets the mode to Normal; no key makes a true
\* should_quit false, and no step other than a key changes it.
C34_QuitOnlyFromNormal ==
    /\ [](\A key_code \in KeyCodes, listing \in RunListings(file_manager) :
             LET handled == KeyHandler(build, AppRecord, key_code, listing)
             IN  /\ (~should_quit /\ handled.should_quit)
                        => key_code = "q" /\ mode = "Normal"
                 /\ should_quit => handled.should_quit
                 /\ (key_code = "q" /\ mode # "Normal")
                        => /\ handled.mode = "Normal"
                           /\ handled.should_quit = should_quit)
    /\ [][should_quit' # should_quit
             => /\ ~should_quit
                /\ mode = "Normal"
                /\ last_call'.op = "handle_key_events"]_vars

\* 'q' was pressed in Normal mode of app.rs after the Volume mode had been entered,
\* used and left: should_quit is true.
C34_Witness ==
    /\ build = "modular"
    /\ should_quit
    /\ mode = "Normal"
    /\ effect_manager.volume # F32_1_0
    /\ last_call.op = "handle_key_events"

\* C35: Esc, in any mode and with the help menu shown or hidden, sets the mode to
\* Normal and show_help to false and changes nothing else: the parameters, the
\* sessions and their sinks, last_played, the log, the file manager, the current
\* file and should_quit stay as they are, and no sound is played.
C35_EscapeOnlyResetsMode ==
    /\ [](build = "modular"
             => \A listing \in RunListings(file_manager) :
                   KeyHandler(build, AppRecord, "Esc", listing)
                       = [AppRecord EXCEPT !.mode = "Normal", !.show_help = FALSE])
    /\ [][HandleKeyCall("Esc", {}, TRUE, "ok", "ok", MaxAppSinks)
             => /\ mode' = "Normal"
                /\ show_help' = FALSE
                /\ UNCHANGED <<effect_manager, active_sinks, sink_queue, sink_source,
                               last_played, messages, file_manager, current_audio_file,
                               should_quit>>]_vars

\* Back in Normal mode by a key that played nothing, out of the file browser where
\* the second entry was selected and a file was played looping, with the volume
\* changed before: the selection, the session and the volume are still there.
C35_Witness ==
    /\ mode = "Normal"
    /\ ~show_help
    /\ last_call.op = "handle_key_events"
    /\ file_manager.selected_index = 1
    /\ current_audio_file = <<"song.wav">>
    /\ Len(active_sinks) = 1
    /\ active_sinks[1].is_looping
    /\ effect_manager.volume # F32_1_0
    /\ ~should_quit

\* The keys that step a parameter in its mode.
StepKeys == {"j", "k", "Down", "Up"}

\* What a change of each parameter between em and after requires of the mode and key.
OwnModeOnly(em, after, m, key_code) ==
    /\ after.volume # em.volume => m = "Volume" /\ key_code \in StepKeys
    /\ after.playback_speed # em.playback_speed => m = "Pitch" /\ key_code \in StepKeys
    /\ after.lowpass_cutoff # em.lowpass_cutoff => m = "Filter" /\ key_code \in StepKeys
    /\ after.reverb_enabled # em.reverb_enabled => m = "Normal" /\ key_code = "e"
    /\ after.reverb_delay = em.reverb_delay

\* C36: in the App of app.rs a key changes the volume only as j, k, Down or Up in
\* Volume mode, the speed only as one of them in Pitch mode, the cutoff only as one
\* of them in Filter mode, and reverb_enabled only as 'e' in Normal mode; every
\* other pair of mode and key leaves all four as they are, and so does every step
\* that is not a key.
C36_ParametersInOwnMode ==
    /\ [](build = "modular"
             => \A key_code \in KeyCodes, listing \in RunListings(file_manager) :
                   OwnModeOnly(effect_manager,
                               KeyHandler(build, AppRecord, key_code, listing).effect_manager,
                               mode, key_code))
    /\ [][(build = "modular" /\ effect_manager' # effect_manager)
             => /\ last_call'.op = "handle_key_events"
                /\ \E key_code \in KeyCodes :
                      OwnModeOnly(effect_manager, effect_manager', mode, key_code)]_vars

\* In Pitch mode the speed has just been stepped; the other parameters are at the
\* values new() gave them.
C36_Witness ==
    /\ build = "modular"
    /\ mode = "Pitch"
    /\ last_call.op = "handle_key_events"
    /\ effect_manager.playback_speed # F32_1_0
    /\ effect_manager.volume = F32_1_0
    /\ effect_manager.lowpass_cutoff = 20000
    /\ ~effect_manager.reverb_enabled

\* The file name of the path given to play_sound: that of the entry whose path it
\* is, or the path itself when it is a bare name ("example.wav").
PlayedFileName(fm, file_path) ==
    IF \E i \in DOMAIN fm.entries : to_str(fm.entries[i]) = file_path
    THEN file_name(fm.entries[CHOOSE i \in DOMAIN fm.entries :
                                  to_str(fm.entries[i]) = file_path])
    ELSE file_path

\* C37 as stated: when a key of app.rs's App has played a sound and a session was
\* created for it, current_audio_file is the file name of the path that play_sound
\* was given, the example.wav of the fallbacks included.
C37_Original ==
    [][(build = "modular" /\ last_call'.op = "play_sound"
           /\ Len(active_sinks') = Len(active_sinks) + 1)
          => current_audio_file'
                 = <<PlayedFileName(file_manager,
                                    sink_source'[active_sinks'[Len(active_sinks')].sink])>>]_vars

\* C38: whatever the directories hold from one call to the next, after every call of
\* select_next, select_prev, refresh_files, change_directory and go_to_parent_dir a
\* non-empty entries has selected_index below its length, so that
\* get_selected_file reads an entry that exists; select_next after the last entry
\* selects the first, and select_prev before the first selects the last.
C38_SelectionInBounds ==
    file_manager.entries # <<>>
        => LET len == Len(file_manager.entries)
               index == file_manager.selected_index
           IN  /\ index \in 0..(len - 1)
               /\ get_selected_file(file_manager) = <<file_manager.entries[index + 1]>>
               /\ select_next(file_manager).selected_index
                      = IF index = len - 1 THEN 0 ELSE index + 1
               /\ select_prev(file_manager).selected_index
                      = IF index = 0 THEN len - 1 ELSE index - 1

\* Two levels below the root, with two entries listed and the first selected,
\* select_prev was called: the last entry is selected.
C38_Witness ==
    /\ last_call.op = "select_prev"
    /\ Len(file_manager.entries) = 2
    /\ file_manager.selected_index = 1
    /\ Len(file_manager.current_dir) = 2

====
